---- MODULE Spec2Model ----
(***************************************************************************)
(* Lookup sequencer (App: handleWordSelect and its auto-play loop) and     *)
(* audio playback controller (geminiService: stopAudio, playPronunciation) *)
(* of the reader, as a state machine over the browser's event loop.        *)
(*                                                                         *)
(* One action is one event-loop task or microtask.  A continuation that    *)
(* resumes after `await` on a settled promise is a microtask: while one is *)
(* pending no task (user event, timer, network completion, media event)    *)
(* runs.                                                                   *)
(***************************************************************************)
EXTENDS Integers, Sequences, FiniteSets, TLC

\* ---------------------------------------------------------------- bounds
MaxRequests == 2      \* lookup gestures (clicks, Translate Selection taps)
MaxPlays == 3         \* calls of playPronunciation
MaxCycles == 1        \* presses of the auto-play button

\* ------------------------------------------------------------ constants
HistoryCap == 100
DefaultSpeed == 10        \* DEFAULT_SETTINGS.playbackSpeed, in tenths

ArticleIds == {1, 2}
\* texts are sequences of UTF-16 code units
tale == <<116, 97, 108, 101>>
dansk == <<100, 97, 110, 115, 107>>
kanIkkeTale == <<107, 97, 110, 32, 105, 107, 107, 101, 32, 116, 97, 108, 101, 46>>
Words == {tale, dansk}
\* selection.toString(): nothing, a space, " kan ikke tale. "
Selections == {<<>>, <<32>>, <<32>> \o kanIkkeTale \o <<32>>}
AutoPlayCounts == 0..3    \* values cycleAutoPlay produces, DEFAULT_SETTINGS has 3
None == [word |-> <<>>, req |-> 0]
NoCall == [op |-> "none"]
NotReturned == [done |-> FALSE]
Speeds == {10, 7, 5}      \* values cyclePlaybackSpeed produces, in tenths

VARIABLES
  article,            \* 0 = null, else the id of the article shown
  currentDefinition,  \* None or [word, req]; req = index of the request that set it
  loadingState,       \* LoadingState
  wordHistory,        \* newest first
  currentRequestId,   \* currentRequestIdRef.current
  alerts,             \* number of window.alert calls
  consoleErrors,      \* number of console.error("Translation failed") calls
  submitCalls,        \* number of invocations of handleWordSelect
  autoPlayCount,      \* the setting
  cycles,             \* number of cycleAutoPlay calls
  req,                \* one record per invocation that passed the article guard
  isPlayingAudio,     \* ArticleReader state
  manualPlay,         \* the play handlePlayAudio awaits (0 = none)
  popoverPos,         \* ArticleReader state: 0 = null, 1 = the rectangle of a span
  dragOffset,         \* ArticleReader state: {x, y}
  isDraggingRef,      \* isDraggingRef.current
  dragStartRef,       \* dragStartRef.current
  initialDragOffsetRef, \* initialDragOffsetRef.current
  pointer,            \* clientX, clientY of the last pointer event
  gestures,           \* number of drag gestures begun
  held,               \* the pointer's left button is down
  currentAudio,       \* module variable: 0 = null, else index into plays
  currentResolve,     \* module variable: 0 = null, else index into plays
  plays,              \* one record per playPronunciation call
  hasSpeech,          \* 'speechSynthesis' in window
  args,               \* arguments of the function a function specification applies
  ret,                \* what that function returned
  manualTranslateTouchRef,  \* manualTranslateTouchRef.current
  timers,             \* the times at which pending setTimeout callbacks are due
  now,                \* the time in ms
  lastTouchEnd,       \* the time of the last touch-end on the button, -1 = none
  clickPending        \* the browser owes the synthesized click of the last tap

appVars == <<article, currentDefinition, loadingState, wordHistory,
             currentRequestId, alerts, consoleErrors, submitCalls>>
settingVars == <<autoPlayCount, cycles>>
readerVars == <<isPlayingAudio, manualPlay>>
audioVars == <<currentAudio, currentResolve, plays>>
callVars == <<args, ret>>
dragVars == <<dragOffset, isDraggingRef, dragStartRef, initialDragOffsetRef,
              pointer, gestures, held>>

tapVars == <<manualTranslateTouchRef, timers, now, lastTouchEnd, clickPending>>

\* useRef(false); the button was never touched
TapIdle ==
  /\ manualTranslateTouchRef = FALSE
  /\ timers = {}
  /\ now = 0
  /\ lastTouchEnd = 0 - 1
  /\ clickPending = FALSE

vars == <<appVars, settingVars, req, readerVars, audioVars, hasSpeech, callVars,
          popoverPos, dragVars, tapVars>>

Abs(a) == IF a < 0 THEN 0 - a ELSE a

Min(a, b) == IF a < b THEN a ELSE b
Max(a, b) == IF a > b THEN a ELSE b

RECURSIVE SumOver(_, _)
SumOver(f, S) ==
  IF S = {} THEN 0
  ELSE LET x == CHOOSE y \in S : TRUE IN f[x] + SumOver(f, S \ {x})

\* ------------------------------------------------- span resolver
\* A text is a sequence of UTF-16 code units; text[i + 1] is the character
\* JavaScript calls text[i].
MaxText == 4          \* characters of a generated block

Hyphen == 45
\* t, ae, hyphen, space, full stop, newline
Alphabet == {116, 230, Hyphen, 32, 46, 10}
\* "Han kan ikke tale dansk."
Sentence == <<72, 97, 110, 32, 107, 97, 110, 32, 105, 107, 107, 101, 32,
              116, 97, 108, 101, 32, 100, 97, 110, 115, 107, 46>>

\* /[a-zA-Z0-9\-\u00C0-\u024F\u1E00-\u1EFF\u0400-\u04FF\u0370-\u03FF\uAC00-\uD7AF]/
isWordChar(c) ==
  \/ c \in 97..122 \/ c \in 65..90 \/ c \in 48..57 \/ c = Hyphen
  \/ c \in 192..591 \/ c \in 7680..7935 \/ c \in 1024..1279
  \/ c \in 880..1023 \/ c \in 44032..55215

\* white space of String.prototype.trim and of \s
IsWhiteSpace(c) ==
  \/ c \in 9..13 \/ c = 32 \/ c = 160 \/ c = 5760 \/ c \in 8192..8202
  \/ c \in {8232, 8233, 8239, 8287, 12288, 65279}

\* the character class of the filter at handleClick: \s, \u2000-\u206F,
\* \u2E00-\u2E7F, the ASCII punctuation and the CJK punctuation it lists
IsPunctuation(c) ==
  \/ IsWhiteSpace(c) \/ c \in 8192..8303 \/ c \in 11776..11903
  \/ c \in 33..47 \/ c \in 58..64 \/ c \in {91, 92, 93, 94, 96} \/ c \in 123..126
  \/ c \in {12290, 65292, 12289, 65311, 65307, 65306, 8216, 8220, 8217, 8221,
            12304, 12305, 65288, 65289, 8230, 8212}

\* ['.', '!', '?', '\u3002', '\uFF1F', '\uFF01', '\n']
terminators == {46, 33, 63, 12290, 65311, 65281, 10}

\* text.substring(start, end), for 0 <= start <= end <= text.length
substring(text, start, end) == SubSeq(text, start + 1, end)

RECURSIVE trimStart(_)
trimStart(text) ==
  IF text # <<>> /\ IsWhiteSpace(Head(text)) THEN trimStart(Tail(text)) ELSE text

RECURSIVE trimEnd(_)
trimEnd(text) ==
  IF text # <<>> /\ IsWhiteSpace(text[Len(text)])
  THEN trimEnd(SubSeq(text, 1, Len(text) - 1)) ELSE text

\* mutant: only the leading white space is removed
trimStartOnly(text) == trimStart(text)

\* String.prototype.trim
trim(text) == trimEnd(trimStart(text))

\* while (start > 0 && isWordChar(text[start - 1])) start--
RECURSIVE LookBackwards(_, _)
LookBackwards(text, start) ==
  IF start > 0 /\ isWordChar(text[start]) THEN LookBackwards(text, start - 1)
  ELSE start

\* mutant: the forward scan stops one character early
LookForwardsShort(text, end) == end

\* while (end < text.length && isWordChar(text[end])) end++
RECURSIVE LookForwards(_, _)
LookForwards(text, end) ==
  IF end < Len(text) /\ isWordChar(text[end + 1]) THEN LookForwards(text, end + 1)
  ELSE end

\* mutant: only the empty token is filtered out
IsFilteredOutEmptyOnly(clickedWord) == clickedWord = <<>>

\* !clickedWord || /^[...]+$/.test(clickedWord)
IsFilteredOut(clickedWord) ==
  clickedWord = <<>> \/ \A i \in DOMAIN clickedWord : IsPunctuation(clickedWord[i])

\* getNodeOffset: the lengths of the text nodes before node k of the block
RECURSIVE getNodeOffset(_, _)
getNodeOffset(nodes, k) ==
  IF k <= 1 THEN 0 ELSE getNodeOffset(nodes, k - 1) + Len(nodes[k - 1])

\* containerEl.textContent
RECURSIVE textContent(_)
textContent(nodes) ==
  IF nodes = <<>> THEN <<>> ELSE Head(nodes) \o textContent(Tail(nodes))

\* for (i = globalStart - 1; i >= 0; i--) if (terminator) { sStart = i + 1; break }
RECURSIVE ScanBackwards(_, _)
ScanBackwards(fullText, i) ==
  IF i < 0 THEN 0
  ELSE IF fullText[i + 1] \in terminators THEN i + 1
  ELSE ScanBackwards(fullText, i - 1)

\* for (i = globalEnd; i < length; i++) if (terminator) { sEnd = i + 1; break }
RECURSIVE ScanForwards(_, _)
ScanForwards(fullText, i) ==
  IF i >= Len(fullText) THEN Len(fullText)
  ELSE IF fullText[i + 1] \in terminators THEN i + 1
  ELSE ScanForwards(fullText, i + 1)

\* mutant: the context is cut out without trimming
ContextOfUntrimmed(nodes, k, start, end) ==
  LET fullText == textContent(nodes)
      globalStart == getNodeOffset(nodes, k) + start
      globalEnd == getNodeOffset(nodes, k) + end
  IN substring(fullText, ScanBackwards(fullText, globalStart - 1),
               ScanForwards(fullText, globalEnd))

\* the context of the word at [start, end) of text node k of the block
ContextOf(nodes, k, start, end) ==
  LET fullText == textContent(nodes)
      globalStart == getNodeOffset(nodes, k) + start
      globalEnd == getNodeOffset(nodes, k) + end
  IN trim(substring(fullText, ScanBackwards(fullText, globalStart - 1),
                    ScanForwards(fullText, globalEnd)))

\* what handleClick resolves for a hit on text node k (0: no text node) of a
\* block at the caret offset: "clear" (setPopoverPos(null); onClearSelection())
\* or "select" (onWordSelect(clickedWord, context, false))
Cleared == [done |-> TRUE, kind |-> "clear"]

resolveAtPoint(nodes, k, offset) ==
  IF k = 0 THEN Cleared
  ELSE LET text == nodes[k]
           start == LookBackwards(text, offset)
           end == LookForwards(text, offset)
           clickedWord == trim(substring(text, start, end))
       IN IF IsFilteredOut(clickedWord) THEN Cleared
          ELSE [done |-> TRUE, kind |-> "select", word |-> clickedWord,
                start |-> start, end |-> end,
                context |-> ContextOf(nodes, k, start, end)]

\* the blocks of the function specification: one or two text nodes over the
\* alphabet, and the sentence of the scenario
RECURSIVE StringsOf(_)
StringsOf(n) ==
  IF n = 0 THEN {<<>>}
  ELSE LET shorter == StringsOf(n - 1)
       IN shorter \cup {Append(t, c) : t \in {u \in shorter : Len(u) = n - 1},
                                       c \in Alphabet}

Blocks ==
  LET strings == StringsOf(MaxText) \ {<<>>}
  IN {<<t>> : t \in strings \cup {Sentence}}
       \cup UNION {{<<substring(t, 0, n), substring(t, n, Len(t))>> :
                       n \in 1..(Len(t) - 1)} : t \in strings}

\* the texts callers play
Texts == Words \cup ({trim(sel) : sel \in Selections} \ {<<>>})

\* ------------------------------------------------- popover placement
\* Lengths are CSS pixels.  The window, the container and the span's left
\* edge and width lie on a grid of 8 pixels, so that every half width is a
\* whole number and the sums and differences are exact.
MaxGrid == 98         \* grid steps of the widest window (784 pixels)

Px(i) == 8 * i

margin == 12

\* the span's widths: a caret, one letter, a word
SpanWidths == {Px(0), Px(1), Px(5)}

\* the height of a line of the article's text
LineHeight == 24

\* const isMobile = windowWidth < 768
isMobile(ww) == ww < 768

\* const popoverWidth = isMobile ? 288 : 320
popoverWidth(ww) == IF isMobile(ww) THEN 288 ELSE 320

\* const wordCenterX = popoverPos.left + (popoverPos.width / 2)
wordCenterX(pos) == pos.left + pos.width \div 2

\* containerRef.current ? containerRef.current.offsetWidth : windowWidth
containerWidth(containerRef, ww) ==
  IF containerRef.current THEN containerRef.offsetWidth ELSE ww

minCenterX(pw) == pw \div 2 + margin

maxCenterX(cw, pw) == cw - pw \div 2 - margin

\* mutant: the two clamps are applied in the other order
popoverCenterXUpperLast(pos, cw, pw) ==
  Min(maxCenterX(cw, pw), Max(wordCenterX(pos), minCenterX(pw)))

\* Math.max(minCenterX, Math.min(wordCenterX, maxCenterX))
popoverCenterX(pos, cw, pw) ==
  Max(minCenterX(pw), Min(wordCenterX(pos), maxCenterX(cw, pw)))

maxArrowOffset(pw) == pw \div 2 - 24

\* mutant: the arrow follows the word without a limit
clampedArrowOffsetFree(arrowOffset, pw) == arrowOffset

\* Math.max(-maxArrowOffset, Math.min(arrowOffset, maxArrowOffset))
clampedArrowOffset(arrowOffset, pw) ==
  Max(0 - maxArrowOffset(pw), Min(arrowOffset, maxArrowOffset(pw)))

\* mutant: a span at the threshold has the popover below it
placeBelowInclusive(pos) == pos.top <= 200

\* const topSpace = popoverPos.top; const placeBelow = topSpace < 200
placeBelow(pos) == pos.top < 200

\* opacity: (Math.abs(dragOffset.x) > 20 || Math.abs(dragOffset.y) > 20) ? 0 : 1
opacity(drag) == IF Abs(drag.x) > 20 \/ Abs(drag.y) > 20 THEN 0 ELSE 1

\* renderPopover: the popover's width, its style.left (the center, moved
\* back by translate(-50%)), its style.top, its transform
\* translate(calc(-50% + x px), calc(translateY % + y px)), and the arrow's
\* marginLeft and opacity
renderPopover(pos, containerRef, ww, drag) ==
  LET pw == popoverWidth(ww)
      cw == containerWidth(containerRef, ww)
      center == popoverCenterX(pos, cw, pw)
      arrowOffset == wordCenterX(pos) - center
  IN [done |-> TRUE, popoverWidth |-> pw, containerWidth |-> cw,
      left |-> center, marginLeft |-> clampedArrowOffset(arrowOffset, pw),
      top |-> IF placeBelow(pos) THEN pos.top + pos.height + 12
              ELSE pos.top - 12,
      translateY |-> IF placeBelow(pos) THEN 0 ELSE 0 - 100,
      x |-> drag.x, y |-> drag.y,
      opacity |-> opacity(drag)]

\* the top and bottom edges layout gives a box of height h with this style:
\* translate moves it by the percentage of its own height and by the pixels
BoxTop(style, h) == style.top + (style.translateY * h) \div 100 + style.y
BoxBottom(style, h) == BoxTop(style, h) + h

\* ------------------------------------------------- word history
MaxHead == 2          \* entries of a history before its oldest ones

RecencyWindow == 1000

\* "Tale", the word at the start of a sentence
Tale == <<84, 97, 108, 101>>

\* String.prototype.toLowerCase on the letters A to Z
toLowerCase(w) ==
  [i \in DOMAIN w |-> IF 65 <= w[i] /\ w[i] <= 90 THEN w[i] + 32 ELSE w[i]]

\* Date.now() when the history is updated
Now == 2 * RecencyWindow + 1

\* entries a moment old, at the edge of the window, just out of it
HeadItems ==
  {[word |-> w, timestamp |-> Now - age] :
     w \in {tale, Tale, dansk}, age \in {1, RecencyWindow, RecencyWindow + 1}}

\* an entry of long ago
OldItem == [word |-> dansk, timestamp |-> 0]

\* the histories: newest first, at most HistoryCap entries
Histories ==
  LET heads == {h \in UNION {[1..n -> HeadItems] : n \in 0..MaxHead} :
                  \A i \in 1..(Len(h) - 1) : h[i].timestamp >= h[i + 1].timestamp}
  IN {h \o [i \in 1..n |-> OldItem] :
        h \in heads, n \in 0..(HistoryCap - MaxHead)}

\* JSON values as the code reads them: null, strings (code units) and arrays
JNull == [t |-> "null"]
Undefined == [t |-> "undefined"]
JStr(v) == [t |-> "str", v |-> v]
JArr(v) == [t |-> "arr", v |-> v]

\* x?.[0]
At0(x) ==
  IF x.t \in {"null", "undefined"} THEN Undefined
  ELSE IF x.v = <<>> THEN Undefined
  ELSE IF x.t = "arr" THEN x.v[1]
  ELSE JStr(<<x.v[1]>>)

\* the values JavaScript takes as false in x || y
Falsy(x) == x.t \in {"null", "undefined"} \/ x = JStr(<<>>)

\* "speak", the translation of "tale"
speak == <<115, 112, 101, 97, 107>>

\* fetchGoogleTranslation's return: data?.[0]?.[0]?.[0] || ""
FirstPart(data) ==
  LET part == At0(At0(At0(data)))
  IN IF Falsy(part) THEN JStr(<<>>) ELSE part

\* what the translate endpoint can answer: the request fails, the status is
\* not OK, the body is no JSON (an empty body among them), or JSON data
CheapReplies ==
  {[fetch |-> "reject"], [fetch |-> "notOk"], [fetch |-> "ok", parses |-> FALSE]}
    \cup {[fetch |-> "ok", parses |-> TRUE, data |-> d] :
            d \in {JNull, JArr(<<>>), JArr(<<JNull>>), JArr(<<JArr(<<>>)>>),
                   JArr(<<JArr(<<JArr(<<>>)>>)>>),
                   JArr(<<JArr(<<JArr(<<JStr(<<>>)>>)>>)>>),
                   JArr(<<JArr(<<JArr(<<JStr(speak), JStr(tale)>>)>>)>>)}}

\* what generateContent can answer: a failure, no text, text that is no JSON,
\* or the JSON of the schema
RichReplies == {"reject", "noText", "unparsable", "json"}

\* the call in flight: the await it is at and what it has done so far
Awaiting(pc, fetches, generates, warns) ==
  [done |-> FALSE, pc |-> pc, fetchCalls |-> fetches,
   generateCalls |-> generates, warns |-> warns]

\* the try block around ai.models.generateContent is entered
CallGemini(fetches, warns) == Awaiting("generate", fetches, 1, warns)

\* the promise translateWordInContext returned is settled
TranslateReturn(outcome, translation, partOfSpeech, errors) ==
  [done |-> TRUE, outcome |-> outcome, word |-> args.text,
   translation |-> translation, partOfSpeech |-> partOfSpeech,
   fetchCalls |-> ret.fetchCalls, generateCalls |-> ret.generateCalls,
   warns |-> ret.warns, errors |-> errors]

\* ------------------------------------------------- persistence
\* speeds and sizes are in tenths
DEFAULT_SETTINGS ==
  [targetLang |-> "en", showDetailed |-> FALSE, autoPlayCount |-> 3,
   playbackSpeed |-> DefaultSpeed, textSize |-> 10, readingTheme |-> "light",
   bookmarksEnabled |-> FALSE]

\* the values a user can have saved instead
SavedSettings ==
  [targetLang |-> "zh", showDetailed |-> TRUE, autoPlayCount |-> 1,
   playbackSpeed |-> 7, textSize |-> 12, readingTheme |-> "dark",
   bookmarksEnabled |-> TRUE]

JObj(v) == [t |-> "obj", v |-> v]

\* the objects under the settings key: any of the fields, and the
\* autoPlayAudio flag of earlier versions or not
StoredSettings ==
  {[f \in fields |-> SavedSettings[f]] : fields \in SUBSET DOMAIN SavedSettings}
    \cup {[f \in fields \cup {"autoPlayAudio"} |->
              IF f = "autoPlayAudio" THEN flag ELSE SavedSettings[f]] :
            fields \in SUBSET DOMAIN SavedSettings, flag \in BOOLEAN}

\* what localStorage holds under a key: nothing, or a string that is empty,
\* is no JSON or is the JSON of a value; or the storage cannot be read
Contents(values) ==
  {[kind |-> "blocked"], [kind |-> "missing"],
   [kind |-> "text", empty |-> TRUE, parses |-> FALSE],
   [kind |-> "text", empty |-> FALSE, parses |-> FALSE]}
    \cup {[kind |-> "text", empty |-> FALSE, parses |-> TRUE, value |-> v] :
            v \in values}

Thrown == [threw |-> TRUE]
Value(v) == [threw |-> FALSE, value |-> v]

\* saved is a string that is not empty
HasSaved(content) == content.kind = "text" /\ ~content.empty

\* JSON.parse(saved)
JSONparse(saved) == IF saved.parses THEN Value(saved.value) ELSE Thrown

\* the migration of the legacy flag: autoPlayCount = autoPlayAudio ? 3 : 0
Migrated(parsed) ==
  IF "autoPlayAudio" \in DOMAIN parsed
  THEN [f \in (DOMAIN parsed \cup {"autoPlayCount"}) \ {"autoPlayAudio"} |->
          IF f = "autoPlayCount"
          THEN (IF parsed.autoPlayAudio THEN 3 ELSE 0)
          ELSE parsed[f]]
  ELSE parsed

\* { ...DEFAULT_SETTINGS, ...parsed }
Spread(defaults, parsed) ==
  [f \in DOMAIN defaults \cup DOMAIN parsed |->
     IF f \in DOMAIN parsed THEN parsed[f] ELSE defaults[f]]

\* the try block of getInitialSettings; parsed.autoPlayAudio of null throws
SettingsBody(content) ==
  IF content.kind = "blocked" THEN Thrown
  ELSE IF ~HasSaved(content) THEN Value(DEFAULT_SETTINGS)
  ELSE LET parsed == JSONparse(content) IN
       IF parsed.threw \/ parsed.value = JNull THEN Thrown
       ELSE Value(Spread(DEFAULT_SETTINGS, Migrated(parsed.value.v)))

\* the try block of a history initializer: saved ? JSON.parse(saved) : []
HistoryBody(content) ==
  IF content.kind = "blocked" THEN Thrown
  ELSE IF ~HasSaved(content) THEN Value(JArr(<<>>))
  ELSE JSONparse(content)

\* mutant: the exception leaves the initializer
CaughtNot(result, fallback) ==
  IF result.threw THEN [threw |-> TRUE, value |-> fallback, errors |-> 0]
  ELSE [threw |-> FALSE, value |-> result.value, errors |-> 0]

\* catch (e) { console.error(...); return the default }
Caught(result, fallback) ==
  IF result.threw THEN [threw |-> FALSE, value |-> fallback, errors |-> 1]
  ELSE [threw |-> FALSE, value |-> result.value, errors |-> 0]

getInitialSettings(content) == Caught(SettingsBody(content), DEFAULT_SETTINGS)

historyInitializer(content) == Caught(HistoryBody(content), JArr(<<>>))

\* the settings the application can hold: each field at its default or at
\* the value the user chose
SettingsInMemory ==
  {[f \in DOMAIN DEFAULT_SETTINGS |->
      IF f \in chosen THEN SavedSettings[f] ELSE DEFAULT_SETTINGS[f]] :
     chosen \in SUBSET DOMAIN DEFAULT_SETTINGS}

\* what a save effect writes, under which key
Writes ==
  {[key |-> "dansk_reader_word_history", value |-> JArr(h)] :
     h \in {<<>>, <<tale>>, <<dansk, tale>>}}
    \cup {[key |-> "dansk_reader_article_history", value |-> JArr(h)] :
            h \in {<<>>, <<Sentence>>}}
    \cup {[key |-> "dansk_reader_settings", value |-> JObj(o)] :
            o \in SettingsInMemory}

\* localStorage.setItem(key, JSON.stringify(value)): the string is stored, or
\* the call throws (quota exceeded, storage not available) and nothing is
\* stored.  The effects have no try block: what setItem throws leaves them.
setItem(store, write) ==
  IF store.state = "ok"
  THEN [done |-> TRUE, threw |-> FALSE,
        items |-> [store.items EXCEPT ![write.key] =
                     [kind |-> "text", empty |-> FALSE, parses |-> TRUE,
                      value |-> write.value]]]
  ELSE [done |-> TRUE, threw |-> TRUE, items |-> store.items]

\* ------------------------------------------------- audio controller
\* A play record: promise = state of the promise playPronunciation returned,
\* hasResolved = its closure flag, audio = state of its <audio> element
\* ("active": loading or sounding; "stopped": paused and detached by
\* stopAudio, an error event or play() rejection may still arrive; "error",
\* "dead": nothing more can come from it), utter = state of its fallback
\* utterance ("speaking": queued or spoken; "cancelled": removed by cancel(),
\* its end or error event may still arrive).

\* the record of a play whose handlers can have no further effect
Settled(pl, promise) ==
  [pl EXCEPT !.hasResolved = TRUE,
             !.promise = IF @ = "pending" THEN promise ELSE @,
             !.audio = "dead", !.utter = "done", !.text = <<>>, !.speed = 0,
             !.utext = <<>>, !.urate = 0, !.q = <<>>]

\* stopAudio, step 1: currentAudio.pause(); currentAudio.src = ""
StoppedAudio(pl) == IF pl.hasResolved THEN "dead" ELSE "stopped"

\* stopAudio, step 2: window.speechSynthesis.cancel()
CancelledUtter(pl) ==
  IF hasSpeech /\ pl.utter = "speaking" THEN "cancelled" ELSE pl.utter

\* mutant: the awaiting play is rejected instead of resolved
StopRejected(pl) == IF pl.promise = "pending" THEN "rejected" ELSE pl.promise

\* stopAudio, step 3: if (currentResolve) currentResolve()
StopResolved(pl) == IF pl.promise = "pending" THEN "resolved" ELSE pl.promise

\* stopAudio: the play records after it
StopAudioPlays(ps, ca, cr) ==
  [p \in DOMAIN ps |->
     [ps[p] EXCEPT !.audio = IF p = ca THEN StoppedAudio(ps[p]) ELSE @,
                   !.utter = CancelledUtter(ps[p]),
                   !.promise = IF p = cr THEN StopResolved(ps[p]) ELSE @]]

\* mutant: the handlers forget to stop the audio
stopAudioSkipped == UNCHANGED audioVars

stopAudio ==
  /\ plays' = StopAudioPlays(plays, currentAudio, currentResolve)
  /\ currentAudio' = 0
  /\ currentResolve' = 0

\* mutant: the text is not cut
safeTextUncut(text) == text

\* const safeText = text.length > 200 ? text.substring(0, 200) : text
safeText(text) == IF Len(text) > 200 THEN substring(text, 0, 200) ELSE text

\* encodeURIComponent leaves A-Z a-z 0-9 - _ . ! ~ * ' ( ) as they are
Unreserved(c) ==
  \/ c \in 65..90
  \/ c \in 97..122
  \/ c \in 48..57
  \/ c \in {45, 95, 46, 33, 126, 42, 39, 40, 41}

IsHighSurrogate(c) == c \in 55296..56319
IsLowSurrogate(c) == c \in 56320..57343

\* the UTF-8 bytes of a code point
UTF8(cp) ==
  IF cp < 128 THEN <<cp>>
  ELSE IF cp < 2048 THEN <<192 + (cp \div 64), 128 + (cp % 64)>>
  ELSE IF cp < 65536
       THEN <<224 + (cp \div 4096), 128 + ((cp \div 64) % 64), 128 + (cp % 64)>>
  ELSE <<240 + (cp \div 262144), 128 + ((cp \div 4096) % 64),
         128 + ((cp \div 64) % 64), 128 + (cp % 64)>>

HexDigit(d) == IF d < 10 THEN 48 + d ELSE 55 + d

\* %XX for each byte
RECURSIVE Escaped(_)
Escaped(bytes) ==
  IF bytes = <<>> THEN <<>>
  ELSE <<37, HexDigit(Head(bytes) \div 16), HexDigit(Head(bytes) % 16)>>
         \o Escaped(Tail(bytes))

\* what encodeURIComponent throws for a surrogate with no partner, kept in
\* the place of the result
URIError == <<0 - 1>>

\* what encodeURIComponent writes for the i-th code unit: the unit, the
\* escaped bytes of its code point (a pair of surrogates is one code point,
\* written at the first of the two)
encodedUnit(str, i) ==
  IF IsLowSurrogate(str[i])
  THEN IF i > 1 /\ IsHighSurrogate(str[i - 1]) THEN <<>> ELSE URIError
  ELSE IF IsHighSurrogate(str[i])
       THEN IF i < Len(str) /\ IsLowSurrogate(str[i + 1])
            THEN Escaped(UTF8(65536 + (str[i] - 55296) * 1024
                                    + (str[i + 1] - 56320)))
            ELSE URIError
  ELSE IF Unreserved(str[i]) THEN <<str[i]>> ELSE Escaped(UTF8(str[i]))

\* the strings from the lo-th to the hi-th, joined
RECURSIVE Joined(_, _, _)
Joined(strs, lo, hi) ==
  IF lo > hi THEN <<>>
  ELSE IF lo = hi THEN strs[lo]
  ELSE Joined(strs, lo, (lo + hi) \div 2)
         \o Joined(strs, (lo + hi) \div 2 + 1, hi)

encodeURIComponent(str) ==
  LET units == [i \in 1..Len(str) |-> encodedUnit(str, i)]
  IN IF \E i \in 1..Len(str) : units[i] = URIError
     THEN URIError ELSE Joined(units, 1, Len(str))

\* text = safeText, q = encodedText in the url of audio.src, speed =
\* audio.playbackRate; utext, urate = the text and the rate of the fallback
\* utterance (empty and 0 while there is none)
NewPlay(text, speed) ==
  [promise |-> "pending", hasResolved |-> FALSE, audio |-> "active",
   utter |-> "none", text |-> safeText(text),
   q |-> encodeURIComponent(safeText(text)), speed |-> speed,
   utext |-> <<>>, urate |-> 0]

\* playPronunciation up to the return of its promise; what the executor
\* throws rejects the promise, after currentResolve = resolve and before the
\* audio element exists
playPronunciation(text, speed) ==
  LET threw == encodeURIComponent(safeText(text)) = URIError IN
  /\ plays' = Append(StopAudioPlays(plays, currentAudio, currentResolve),
                     IF threw THEN Settled(NewPlay(text, speed), "rejected")
                     ELSE NewPlay(text, speed))
  /\ currentAudio' = IF threw THEN 0 ELSE Len(plays) + 1
  /\ currentResolve' = Len(plays) + 1

\* const finalize = () => {...}
finalize(p, pl) ==
  IF pl.hasResolved
  THEN /\ plays' = [plays EXCEPT ![p] = pl]
       /\ UNCHANGED <<currentAudio, currentResolve>>
  ELSE /\ plays' = [plays EXCEPT ![p] = Settled(pl, "resolved")]
       /\ currentResolve' = IF currentResolve = p THEN 0 ELSE currentResolve
       /\ currentAudio' = IF currentAudio = p THEN 0 ELSE currentAudio

\* hasResolved = true; if (currentResolve === resolve) currentResolve = null; reject(..)
rejectPlay(p, pl) ==
  IF pl.hasResolved
  THEN /\ plays' = [plays EXCEPT ![p] = pl]
       /\ UNCHANGED <<currentAudio, currentResolve>>
  ELSE /\ plays' = [plays EXCEPT ![p] = Settled(pl, "rejected")]
       /\ currentResolve' = IF currentResolve = p THEN 0 ELSE currentResolve
       /\ UNCHANGED currentAudio

\* audio.onerror enters the fallback: if (!hasResolved)
FallbackAllowed(pl) == ~pl.hasResolved

\* mutant: the utterance is left at the synthesizer's default rate
SpokenDefaultRate(pl) ==
  [pl EXCEPT !.utter = "speaking", !.utext = pl.text, !.urate = DefaultSpeed]

\* new SpeechSynthesisUtterance(safeText); utterance.rate = speed; speak(utterance)
Spoken(pl) ==
  [pl EXCEPT !.utter = "speaking", !.utext = pl.text, !.urate = pl.speed]

\* audio.onerror, for the element whose state after the event is a
audioOnError(p, a) ==
  LET pl == [plays[p] EXCEPT !.audio = a] IN
  IF FallbackAllowed(pl)
  THEN IF hasSpeech
       THEN /\ plays' = [plays EXCEPT ![p] = Spoken(pl)]
            /\ UNCHANGED <<currentAudio, currentResolve>>
       ELSE rejectPlay(p, pl)
  ELSE /\ plays' = [plays EXCEPT ![p] = pl]
       /\ UNCHANGED <<currentAudio, currentResolve>>

AfterError(a) == IF a = "active" THEN "error" ELSE "dead"

\* ------------------------------------------------- lookup sequencer
\* mutant: the counter is read but not incremented
NextRequestIdSame(id) == id

\* currentRequestIdRef.current += 1
NextRequestId(id) == id + 1

\* if (!article) return;
HasArticle == article # 0

\* mutant: the stale check after the await is missing
StillCurrentAlways(q) == TRUE

\* if (currentRequestIdRef.current !== requestId) return;   (after the await)
StillCurrent(q) == currentRequestId = q.requestId

\* mutant: the comparison in finally is inverted
ClearsLoadingInverted(q) == currentRequestId # q.requestId

\* if (currentRequestIdRef.current === requestId) setLoadingState(IDLE)   (finally)
ClearsLoading(q) == currentRequestId = q.requestId

\* mutant: the sentence flag is ignored
ShouldAutoPlayAnyKind(isSentence, count) == count > 0

\* if (!isSentence && autoPlayCount > 0)
ShouldAutoPlay(isSentence, count) == ~isSentence /\ count > 0

\* mutant: the loop never compares generations
LoopStillCurrentAlways(q) == TRUE

\* if (currentRequestIdRef.current !== requestId) break;    (loop head)
LoopStillCurrent(q) == currentRequestId = q.requestId

\* setWordHistory(prev => [newItem, ...prev].slice(0, 100))
AddToHistory(prev, item) ==
  LET all == <<item>> \o prev IN SubSeq(all, 1, Min(Len(all), HistoryCap))

\* mutant: the previous Definition is left on screen while loading
ShowLoadingKeepsDefinition ==
  /\ loadingState' = "TRANSLATING"
  /\ UNCHANGED currentDefinition

\* mutant: the loading state is not raised
ShowLoadingNoFlag ==
  /\ UNCHANGED loadingState
  /\ currentDefinition' = None

\* setLoadingState(LoadingState.TRANSLATING); setCurrentDefinition(null)
ShowLoading ==
  /\ loadingState' = "TRANSLATING"
  /\ currentDefinition' = None

Requests == DOMAIN req
Plays == DOMAIN plays

\* a continuation waiting for a promise that is already settled
MicrotaskPending ==
  \/ \E r \in Requests :
        req[r].lpc = "awaitPlay" /\ plays[req[r].play].promise # "pending"
  \/ isPlayingAudio /\ plays[manualPlay].promise # "pending"

\* calls of playPronunciation an issued request may still make
PlaysLeft(q) ==
  IF q.pc = "translating"
  THEN (IF ~q.isSentence /\ q.count > 0 THEN q.count ELSE 0)
  ELSE IF q.lpc \in {"awaitPlay", "pause"} THEN q.count - q.i - 1 ELSE 0

Committed == Len(plays) + SumOver([r \in Requests |-> PlaysLeft(req[r])], Requests)

Gestures == submitCalls + alerts

\* A request record: the locals of one handleWordSelect call. pc = position of
\* the handler, outcome = what its completion did, lpc = position of its
\* auto-play loop ("none", "awaitPlay", "pause", then "done": ran to the end,
\* "aborted": left at the generation check, "failed": left by the catch).
NewRequest(id, word, isSentence) ==
  [requestId |-> id, word |-> word, isSentence |-> isSentence,
   count |-> autoPlayCount, pc |-> "translating", outcome |-> "pending",
   lpc |-> "none", i |-> 0, play |-> 0]

\* the handler and its loop have returned: their locals are gone
Returned(q) ==
  IF q.pc = "done" /\ q.lpc \in {"none", "done", "aborted", "failed"}
  THEN [q EXCEPT !.word = <<>>, !.isSentence = FALSE, !.count = 0, !.i = 0, !.play = 0]
  ELSE q

\* handleWordSelect up to its first await
\* the dependencies of the drag reset effect: [currentDefinition?.word,
\* isTranslating]
EffectDeps(definition, loading) == <<definition.word, loading = "TRANSLATING">>

Zero == [x |-> 0, y |-> 0]

\* React runs an effect after a render whose dependencies differ from those
\* of the render before
DepsChanged(before, after) == before # after

\* useEffect(() => setDragOffset({ x: 0, y: 0 }), [currentDefinition?.word,
\* isTranslating]), after the render that follows the handler's updates
ResetEffect ==
  /\ dragOffset' =
       IF DepsChanged(EffectDeps(currentDefinition, loadingState),
                      EffectDeps(currentDefinition', loadingState'))
       THEN Zero ELSE dragOffset
  /\ UNCHANGED <<isDraggingRef, dragStartRef, initialDragOffsetRef, pointer,
                 gestures, held>>

handleWordSelect(word, isSentence) ==
  /\ submitCalls' = submitCalls + 1
  /\ IF ~HasArticle
     THEN UNCHANGED <<currentRequestId, req, loadingState, currentDefinition,
                      audioVars>>
     ELSE /\ stopAudio
          /\ currentRequestId' = NextRequestId(currentRequestId)
          /\ req' = Append(req, NewRequest(NextRequestId(currentRequestId),
                                           word, isSentence))
          /\ ShowLoading
  /\ UNCHANGED <<article, wordHistory, alerts, consoleErrors, settingVars,
                 readerVars, hasSpeech, callVars>>

\* mutant: an empty text is passed on to the lookup
IsEmptyTextNever(text) == FALSE

\* if (!text)
IsEmptyText(text) == text = <<>>

\* a boundary point of a range: text node k of the block and an offset into
\* it, or the block element (node 0) and the index of a child
\* getNodeOffset(container, containerEl) + offset, -1 when the container is
\* not a text node
GlobalOffset(nodes, point) ==
  IF point.node = 0 THEN 0 - 1 ELSE getNodeOffset(nodes, point.node) + point.offset

\* where a boundary point lies in containerEl.textContent
PositionOf(nodes, point) ==
  IF point.node = 0 THEN getNodeOffset(nodes, point.offset + 1)
  ELSE getNodeOffset(nodes, point.node) + point.offset

\* the part of handleManualTranslate that finds the context of the selection
\* from..to inside its block
selectionContext(nodes, from, to) ==
  LET fullText == textContent(nodes)
      globalStart == GlobalOffset(nodes, from)
      globalEnd == GlobalOffset(nodes, to)
  IN IF globalStart # 0 - 1 /\ globalEnd # 0 - 1
     THEN trim(substring(fullText, ScanBackwards(fullText, globalStart - 1),
                         ScanForwards(fullText, globalEnd)))
     ELSE fullText

Alerted == [done |-> TRUE, kind |-> "alert"]

\* handleManualTranslate for a selection from..to that is not collapsed:
\* alert("Please select some text first.") or
\* handleWordSelect(text, context, true)
translateSelection(nodes, from, to) ==
  LET text == trim(substring(textContent(nodes), PositionOf(nodes, from),
                             PositionOf(nodes, to)))
      context == selectionContext(nodes, from, to)
  IN IF IsEmptyText(text) THEN Alerted
     ELSE [done |-> TRUE, kind |-> "select", text |-> text,
           context |-> IF context = <<>> THEN text ELSE context]

\* App.handleManualTranslate (the Translate Selection button) with
\* window.getSelection().toString() = sel; a collapsed selection has sel empty
handleManualTranslate(sel) ==
  /\ ~MicrotaskPending
  /\ IF IsEmptyText(trim(sel))
     THEN /\ alerts' = alerts + 1
          /\ UNCHANGED <<article, currentDefinition, loadingState, wordHistory,
                         currentRequestId, consoleErrors, submitCalls,
                         settingVars, req, readerVars, audioVars, hasSpeech, callVars>>
     ELSE handleWordSelect(trim(sel), TRUE)
  /\ UNCHANGED popoverPos
  /\ ResetEffect

\* setTimeout(() => { manualTranslateTouchRef.current = false; }, 400)
ManualTranslateDelay == 400

\* onTouchEnd of the Translate Selection button. The browser owes the tap a
\* synthesized click; a finger touches the button again only after that click.
handleManualTranslateTouch(sel) ==
  /\ ~clickPending
  /\ manualTranslateTouchRef' = TRUE
  /\ handleManualTranslate(sel)
  /\ timers' = timers \cup {now + ManualTranslateDelay}
  /\ lastTouchEnd' = now
  /\ clickPending' = TRUE
  /\ UNCHANGED now

\* the timer of a touch-end fires
TouchFlagTimeout ==
  /\ ~MicrotaskPending
  /\ \E due \in timers :
       /\ due <= now
       /\ timers' = timers \ {due}
  /\ manualTranslateTouchRef' = FALSE
  /\ UNCHANGED <<appVars, settingVars, req, readerVars, audioVars, hasSpeech,
                 callVars, popoverPos, dragVars, now, lastTouchEnd, clickPending>>

\* onClick of the Translate Selection button: a mouse click, or the
\* synthesized click of a tap
handleManualTranslateClick(sel) ==
  /\ IF manualTranslateTouchRef
     THEN /\ ~MicrotaskPending
          /\ UNCHANGED <<appVars, settingVars, req, readerVars, audioVars,
                         hasSpeech, callVars, popoverPos, dragVars>>
     ELSE handleManualTranslate(sel)
  /\ clickPending' = FALSE
  /\ UNCHANGED <<manualTranslateTouchRef, timers, now, lastTouchEnd>>

\* App.handleClearSelection: stopAudio(); setCurrentDefinition(null)
handleClearSelection ==
  /\ stopAudio
  /\ currentDefinition' = None
  /\ UNCHANGED <<article, loadingState, wordHistory, currentRequestId, alerts,
                 consoleErrors, submitCalls, settingVars, req, readerVars,
                 hasSpeech, callVars>>

\* the popover's close button: onClearSelection(); setPopoverPos(null). The
\* popover is rendered while popoverPos is set and a lookup is loading or shown.
ClosePopover ==
  /\ ~MicrotaskPending
  /\ popoverPos = 1
  /\ loadingState = "TRANSLATING" \/ currentDefinition # None
  /\ handleClearSelection
  /\ popoverPos' = 0
  /\ ResetEffect
  /\ UNCHANGED tapVars

\* the paragraph of the article shown: "tale - dansk."
Paragraph == <<tale \o <<32, Hyphen, 32>> \o dansk \o <<46>>>>

\* what the hit test of a click can give: no text node, or a caret offset of
\* the paragraph's text node
Hits ==
  {[nodes |-> Paragraph, node |-> 0, offset |-> 0]}
    \cup {[nodes |-> Paragraph, node |-> 1, offset |-> o] :
            o \in 0..Len(Paragraph[1])}

\* ArticleReader.handleClick with a collapsed selection: a miss clears, a word
\* is measured (updatePopoverPosition) and looked up
HitSpan == [hit \in Hits |-> resolveAtPoint(hit.nodes, hit.node, hit.offset)]

handleClick(hit) ==
  LET span == HitSpan[hit] IN
  /\ ~MicrotaskPending
  /\ HasArticle
  /\ IF span.kind = "clear"
     THEN /\ popoverPos' = 0
          /\ handleClearSelection
     ELSE /\ Gestures < MaxRequests
          /\ Committed + autoPlayCount <= MaxPlays
          /\ popoverPos' = 1
          /\ handleWordSelect(span.word, FALSE)
  /\ ResetEffect
  /\ UNCHANGED tapVars

\* the request record once the auto-play loop (if any) reached its first await
LoopStarted(q) ==
  IF ShouldAutoPlay(q.isSentence, q.count)
  THEN [q EXCEPT !.lpc = "awaitPlay", !.i = 0, !.play = Len(plays) + 1]
  ELSE q

\* translateWordInContext resolved: the rest of the try block and finally
TranslateResolve(r) ==
  LET q == req[r] IN
  /\ ~MicrotaskPending
  /\ q.pc = "translating"
  /\ IF ~StillCurrent(q)
     THEN /\ req' = [req EXCEPT ![r] =
                       Returned([q EXCEPT !.pc = "done", !.outcome = "stale"])]
          /\ UNCHANGED <<currentDefinition, wordHistory, audioVars>>
     ELSE /\ currentDefinition' = [word |-> q.word, req |-> r]
          /\ wordHistory' = AddToHistory(wordHistory, [word |-> q.word, req |-> r])
          /\ req' = [req EXCEPT ![r] =
                       Returned(LoopStarted([q EXCEPT !.pc = "done",
                                                      !.outcome = "shown"]))]
          /\ IF ShouldAutoPlay(q.isSentence, q.count)
             THEN playPronunciation(q.word, DefaultSpeed)
             ELSE UNCHANGED audioVars
  /\ loadingState' = IF ClearsLoading(q) THEN "IDLE" ELSE loadingState
  /\ UNCHANGED <<article, currentRequestId, alerts, consoleErrors, submitCalls,
                 settingVars, readerVars, hasSpeech, callVars, popoverPos, tapVars>>
  /\ ResetEffect

\* translateWordInContext rejected: catch and finally
TranslateReject(r) ==
  LET q == req[r] IN
  /\ ~MicrotaskPending
  /\ q.pc = "translating"
  /\ IF ~StillCurrent(q)
     THEN /\ req' = [req EXCEPT ![r] =
                       Returned([q EXCEPT !.pc = "done", !.outcome = "stale"])]
          /\ UNCHANGED consoleErrors
     ELSE /\ req' = [req EXCEPT ![r] =
                       Returned([q EXCEPT !.pc = "done", !.outcome = "failed"])]
          /\ consoleErrors' = consoleErrors + 1
  /\ loadingState' = IF ClearsLoading(q) THEN "IDLE" ELSE loadingState
  /\ UNCHANGED <<article, currentDefinition, wordHistory, currentRequestId,
                 alerts, submitCalls, settingVars, readerVars, audioVars,
                 hasSpeech, callVars, popoverPos, tapVars>>
  /\ ResetEffect

\* mutant: the pause follows the last repetition too
PausesAfterAlways(q) == TRUE

\* if (i < autoPlayCount - 1) await new Promise(resolve => setTimeout(resolve, 500))
PausesAfter(q) == q.i < q.count - 1

\* the loop resumes after `await playPronunciation(...)`: the catch breaks,
\* the last repetition falls through i++ and the loop condition
LoopResume(r) ==
  LET q == req[r] IN
  /\ q.lpc = "awaitPlay"
  /\ plays[q.play].promise # "pending"
  /\ req' = [req EXCEPT ![r] =
               IF plays[q.play].promise = "rejected"
               THEN Returned([q EXCEPT !.lpc = "failed"])
               ELSE IF PausesAfter(q) THEN [q EXCEPT !.lpc = "pause"]
               ELSE Returned([q EXCEPT !.lpc = "done"])]
  /\ UNCHANGED <<appVars, settingVars, readerVars, audioVars, hasSpeech, callVars, popoverPos, dragVars, tapVars>>

\* the 500 ms timer fires: i++, loop condition, generation check, next play
LoopTimer(r) ==
  LET q == req[r] IN
  /\ ~MicrotaskPending
  /\ q.lpc = "pause"
  /\ IF ~(q.i + 1 < q.count)
     THEN /\ req' = [req EXCEPT ![r] = Returned([q EXCEPT !.lpc = "done"])]
          /\ UNCHANGED audioVars
     ELSE IF LoopStillCurrent(q)
     THEN /\ req' = [req EXCEPT ![r] = [q EXCEPT !.lpc = "awaitPlay", !.i = q.i + 1,
                                                  !.play = Len(plays) + 1]]
          /\ playPronunciation(q.word, DefaultSpeed)
     ELSE /\ req' = [req EXCEPT ![r] = Returned([q EXCEPT !.lpc = "aborted"])]
          /\ UNCHANGED audioVars
  /\ UNCHANGED <<appVars, settingVars, readerVars, hasSpeech, callVars, popoverPos, dragVars, tapVars>>

\* ArticleReader.handlePlayAudio (the popover's Listen button)
handlePlayAudio ==
  /\ ~MicrotaskPending
  /\ currentDefinition # None
  /\ loadingState # "TRANSLATING"
  /\ ~isPlayingAudio
  /\ Committed + 1 <= MaxPlays
  /\ isPlayingAudio' = TRUE
  /\ manualPlay' = Len(plays) + 1
  /\ playPronunciation(currentDefinition.word, DefaultSpeed)
  /\ UNCHANGED <<appVars, settingVars, req, hasSpeech, callVars, popoverPos, dragVars, tapVars>>

\* handlePlayAudio resumes: finally { setIsPlayingAudio(false) }
PlayAudioResume ==
  /\ isPlayingAudio
  /\ plays[manualPlay].promise # "pending"
  /\ isPlayingAudio' = FALSE
  /\ manualPlay' = 0
  /\ UNCHANGED <<appVars, settingVars, req, audioVars, hasSpeech, callVars, popoverPos, dragVars, tapVars>>

handlePasteArticle(a) ==
  /\ ~MicrotaskPending
  /\ loadingState' = "IDLE"
  /\ article' = a
  /\ UNCHANGED <<currentDefinition, wordHistory, currentRequestId, alerts,
                 consoleErrors, submitCalls, settingVars, req, readerVars,
                 audioVars, hasSpeech, callVars, popoverPos, tapVars>>
  /\ ResetEffect

CycledAutoPlay(prev) ==
  IF prev = 0 THEN 1 ELSE IF prev = 1 THEN 2 ELSE IF prev = 2 THEN 3 ELSE 0

cycleAutoPlay ==
  /\ ~MicrotaskPending
  /\ cycles < MaxCycles
  /\ cycles' = cycles + 1
  /\ autoPlayCount' = CycledAutoPlay(autoPlayCount)
  /\ UNCHANGED <<appVars, req, readerVars, audioVars, hasSpeech, callVars, popoverPos, dragVars, tapVars>>

\* ------------------------------------------------- popover drag
MaxGestures == 2      \* drag gestures (pointer-downs on the handle)

\* positions of the pointer: 20 and 21 pixels right of a corner, 21 below
Points ==
  {[x |-> 0, y |-> 0], [x |-> 20, y |-> 0], [x |-> 21, y |-> 0],
   [x |-> 0, y |-> 21]}

Plus(a, b) == [x |-> a.x + b.x, y |-> a.y + b.y]
Minus(a, b) == [x |-> a.x - b.x, y |-> a.y - b.y]

\* renderPopover returns the popover, and its drag handle with it
PopoverShown ==
  popoverPos = 1 /\ (loadingState = "TRANSLATING" \/ currentDefinition # None)

\* handlePointerDown on the drag handle: only the left button starts a drag.
\* The browser sends it when a button goes down with none down before.
handlePointerDown(p, button) ==
  /\ ~MicrotaskPending
  /\ PopoverShown
  /\ gestures < MaxGestures
  /\ ~held
  /\ pointer' = p
  /\ IF button # 0
     THEN UNCHANGED <<isDraggingRef, dragStartRef, initialDragOffsetRef,
                      gestures, held>>
     ELSE /\ isDraggingRef' = TRUE
          /\ dragStartRef' = p
          /\ initialDragOffsetRef' = dragOffset
          /\ gestures' = gestures + 1
          /\ held' = TRUE
  /\ UNCHANGED <<appVars, settingVars, req, readerVars, audioVars, hasSpeech,
                 callVars, popoverPos, tapVars, dragOffset>>

\* x: initialDragOffsetRef.current.x + deltaX, y: ... + deltaY
Dragged(initial, start, p) == Plus(initial, Minus(p, start))

\* handlePointerMove on the drag handle, which holds the pointer capture
\* while the button is down and is under the pointer otherwise
handlePointerMove(p) ==
  /\ ~MicrotaskPending
  /\ PopoverShown
  /\ p # pointer
  /\ pointer' = p
  /\ dragOffset' = IF isDraggingRef
                   THEN Dragged(initialDragOffsetRef, dragStartRef, p)
                   ELSE dragOffset
  /\ UNCHANGED <<appVars, settingVars, req, readerVars, audioVars, hasSpeech,
                 callVars, popoverPos, tapVars, isDraggingRef, dragStartRef,
                 initialDragOffsetRef, gestures, held>>

\* handlePointerUp on the drag handle
handlePointerUp ==
  /\ ~MicrotaskPending
  /\ PopoverShown
  /\ held
  /\ held' = FALSE
  /\ isDraggingRef' = FALSE
  /\ UNCHANGED <<appVars, settingVars, req, readerVars, audioVars, hasSpeech,
                 callVars, popoverPos, tapVars, dragOffset, dragStartRef,
                 initialDragOffsetRef, pointer, gestures>>

\* the button goes up after the popover, and its handle with it, left the
\* page: no handler of the handle is called
PointerUpElsewhere ==
  /\ ~MicrotaskPending
  /\ ~PopoverShown
  /\ held
  /\ held' = FALSE
  /\ UNCHANGED <<appVars, settingVars, req, readerVars, audioVars, hasSpeech,
                 callVars, popoverPos, tapVars, dragOffset, isDraggingRef, dragStartRef,
                 initialDragOffsetRef, pointer, gestures>>

\* ------------------------------------------------- media events
nonAudio == <<appVars, settingVars, req, readerVars, hasSpeech, callVars, popoverPos, dragVars, tapVars>>

\* audio.onended
AudioEnded(p) ==
  /\ ~MicrotaskPending
  /\ plays[p].audio = "active"
  /\ finalize(p, [plays[p] EXCEPT !.audio = "ended"])
  /\ UNCHANGED nonAudio

\* an error event on the element: a network or format error while it loads or
\* plays, or the error the emptied src raises after stopAudio
AudioErrorEvent(p) ==
  /\ ~MicrotaskPending
  /\ plays[p].audio \in {"active", "stopped"}
  /\ audioOnError(p, AfterError(plays[p].audio))
  /\ UNCHANGED nonAudio

\* audio.play() rejected (autoplay policy, or aborted by the pause of stopAudio):
\* the catch dispatches an error event unless the play has finalized
PlayStartRejected(p) ==
  /\ ~MicrotaskPending
  /\ plays[p].audio \in {"active", "stopped"}
  /\ audioOnError(p, AfterError(plays[p].audio))
  /\ UNCHANGED nonAudio

\* utterance.onend (also delivered to a cancelled utterance)
UtteranceEnd(p) ==
  /\ ~MicrotaskPending
  /\ plays[p].utter \in {"speaking", "cancelled"}
  /\ finalize(p, [plays[p] EXCEPT !.utter = "done"])
  /\ UNCHANGED nonAudio

\* utterance.onerror (also delivered to a cancelled utterance)
UtteranceError(p) ==
  /\ ~MicrotaskPending
  /\ plays[p].utter \in {"speaking", "cancelled"}
  /\ rejectPlay(p, [plays[p] EXCEPT !.utter = "done"])
  /\ UNCHANGED nonAudio

\* the hit test (caretRangeFromPoint) is given: any text node, any caret offset
ClickInit ==
  \E nodes \in Blocks :
    \E k \in 0..Len(nodes) :
      \E offset \in 0..(IF k = 0 THEN 0 ELSE Len(nodes[k])) :
        args = [op |-> "click", nodes |-> nodes, node |-> k, offset |-> offset]

\* the selection is given: a range inside one block that is not collapsed,
\* its boundary points in text nodes or at the two ends of the block element
BoundaryPoints(nodes) ==
  {[node |-> 0, offset |-> o] : o \in {0, Len(nodes)}}
    \cup UNION {{[node |-> k, offset |-> o] : o \in 0..Len(nodes[k])} :
                  k \in 1..Len(nodes)}

SelectInit ==
  \E nodes \in Blocks :
    \E from \in BoundaryPoints(nodes), to \in BoundaryPoints(nodes) :
      /\ PositionOf(nodes, from) < PositionOf(nodes, to)
      /\ args = [op |-> "select", nodes |-> nodes, from |-> from, to |-> to]

\* the Translate Selection button pressed on the selection
SelectCall ==
  /\ HasArticle
  /\ args.op = "select"
  /\ ~ret.done
  /\ ret' = translateSelection(args.nodes, args.from, args.to)
  /\ UNCHANGED <<appVars, settingVars, req, readerVars, audioVars, hasSpeech,
                 args, popoverPos, dragVars, tapVars>>

\* the resolution part of handleClick, applied to the hit
ResolveCall ==
  /\ HasArticle
  /\ args.op = "click"
  /\ ~ret.done
  /\ ret' = resolveAtPoint(args.nodes, args.node, args.offset)
  /\ UNCHANGED <<appVars, settingVars, req, readerVars, audioVars, hasSpeech,
                 args, popoverPos, dragVars, tapVars>>

\* a render: the window, the container inside it (attached, since the anchor
\* was measured against it) and the span's rectangle relative to the container
RenderInit ==
  \E w \in 1..MaxGrid :
    \E c \in 1..w :
      \E l \in 0..c :
        \E width \in SpanWidths :
          args = [op |-> "render", windowWidth |-> Px(w),
                  containerRef |-> [current |-> TRUE, offsetWidth |-> Px(c)],
                  popoverPos |-> [left |-> Px(l), width |-> width,
                                  top |-> Px(30), height |-> LineHeight],
                  offsetHeight |-> Px(20)]

\* the span's tops around the threshold, the heights of the popover's box
SpanTops == {0, 192, 199, 200, 201, 400}
BoxHeights == {Px(10), Px(40)}

\* a popover to render for a span anywhere down the container, in a narrow
\* and in a wide window, after a drag that ended
PlaceInit ==
  /\ \E w \in {MaxGrid \div 2, MaxGrid} :
       \E l \in {0, w \div 2, w - 5} :
         \E top \in SpanTops :
           \E h \in BoxHeights :
             args = [op |-> "render", windowWidth |-> Px(w),
                     containerRef |-> [current |-> TRUE, offsetWidth |-> Px(w)],
                     popoverPos |-> [left |-> Px(l), width |-> Px(5),
                                     top |-> top, height |-> LineHeight],
                     offsetHeight |-> h]
  /\ \E d \in Points \cup {Minus(Zero, p) : p \in Points} :
       /\ dragOffset = d
       /\ pointer = d
       /\ gestures = IF d = Zero THEN 0 ELSE 1
  /\ isDraggingRef = FALSE
  /\ held = FALSE
  /\ dragStartRef = Zero
  /\ initialDragOffsetRef = Zero
  /\ TapIdle

\* renderPopover with an anchor and a Definition to show
RenderCall ==
  /\ popoverPos = 1
  /\ loadingState = "TRANSLATING" \/ currentDefinition # None
  /\ args.op = "render"
  /\ ~ret.done
  /\ ret' = renderPopover(args.popoverPos, args.containerRef, args.windowWidth,
                          dragOffset)
  /\ UNCHANGED <<appVars, settingVars, req, readerVars, audioVars, hasSpeech,
                 args, popoverPos, dragVars, tapVars>>

\* a call of translateWordInContext and the answers the two providers give
TranslateInit ==
  \E text \in Texts, requestDetailed \in BOOLEAN :
    \E cheap \in CheapReplies, rich \in RichReplies :
      args = [op |-> "translate", text |-> text,
              requestDetailed |-> requestDetailed, cheap |-> cheap, rich |-> rich]

InTranslate(pc) == ~ret.done /\ ret # NotReturned /\ ret.pc = pc

\* translateWordInContext up to its first await
TranslateCall ==
  /\ args.op = "translate"
  /\ ret = NotReturned
  /\ ret' = IF args.requestDetailed THEN CallGemini(0, 0)
            ELSE Awaiting("fetch", 1, 0, 0)
  /\ UNCHANGED <<appVars, settingVars, req, readerVars, audioVars, hasSpeech,
                 args, popoverPos, dragVars, tapVars>>

\* await fetch(url) settles: a rejection or a status that is not OK throws
\* into the catch of translateWordInContext, which warns and goes on
FetchSettles ==
  /\ InTranslate("fetch")
  /\ ret' = IF args.cheap.fetch = "ok"
            THEN Awaiting("json", ret.fetchCalls, 0, 0)
            ELSE CallGemini(ret.fetchCalls, 1)
  /\ UNCHANGED <<appVars, settingVars, req, readerVars, audioVars, hasSpeech,
                 args, popoverPos, dragVars, tapVars>>

\* await response.json() settles and fetchGoogleTranslation returns
JsonSettles ==
  /\ InTranslate("json")
  /\ ret' = IF args.cheap.parses
            THEN TranslateReturn("resolved", FirstPart(args.cheap.data), "Text", 0)
            ELSE CallGemini(ret.fetchCalls, 1)
  /\ UNCHANGED <<appVars, settingVars, req, readerVars, audioVars, hasSpeech,
                 args, popoverPos, dragVars, tapVars>>

\* await ai.models.generateContent(...) settles
GenerateSettles ==
  /\ InTranslate("generate")
  /\ ret' = IF args.rich = "json"
            THEN TranslateReturn("resolved", JStr(speak), "verb", 0)
            ELSE TranslateReturn("rejected", Undefined, "", 1)
  /\ UNCHANGED <<appVars, settingVars, req, readerVars, audioVars, hasSpeech,
                 args, popoverPos, dragVars, tapVars>>

\* an accepted result and the history it is added to
HistoryInit ==
  \E prev \in Histories, w \in {tale, Tale, dansk} :
    args = [op |-> "history", prev |-> prev, now |-> Now,
            newItem |-> [word |-> w, timestamp |-> Now]]

\* the updater given to setWordHistory
HistoryCall ==
  /\ args.op = "history"
  /\ ~ret.done
  /\ ret' = [done |-> TRUE, history |-> AddToHistory(args.prev, args.newItem)]
  /\ UNCHANGED <<appVars, settingVars, req, readerVars, audioVars, hasSpeech,
                 args, popoverPos, dragVars, tapVars>>

\* startup: what the three keys of the store hold
LoadInit ==
  \E settings \in Contents({JNull} \cup {JObj(o) : o \in StoredSettings}) :
    \E words \in Contents({JNull, JArr(<<>>), JArr(<<tale>>)}) :
      \E articles \in Contents({JNull, JArr(<<>>), JArr(<<Sentence>>)}) :
        args = [op |-> "load", settings |-> settings, words |-> words,
                articles |-> articles]

\* useState(getInitialSettings)
LoadSettings ==
  /\ args.op = "load"
  /\ ret = NotReturned
  /\ LET r == getInitialSettings(args.settings)
     IN ret' = [done |-> r.threw, pc |-> "words", threw |-> r.threw,
                errors |-> r.errors, settings |-> r.value]
  /\ UNCHANGED <<appVars, settingVars, req, readerVars, audioVars, hasSpeech,
                 args, popoverPos, dragVars, tapVars>>

\* the initializer of wordHistory
LoadWordHistory ==
  /\ args.op = "load"
  /\ ~ret.done /\ ret # NotReturned /\ ret.pc = "words"
  /\ LET r == historyInitializer(args.words)
     IN ret' = [done |-> r.threw, pc |-> "articles", threw |-> r.threw,
                errors |-> ret.errors + r.errors, settings |-> ret.settings,
                wordHistory |-> r.value]
  /\ UNCHANGED <<appVars, settingVars, req, readerVars, audioVars, hasSpeech,
                 args, popoverPos, dragVars, tapVars>>

\* the initializer of articleHistory
LoadArticleHistory ==
  /\ args.op = "load"
  /\ ~ret.done /\ ret # NotReturned /\ ret.pc = "articles"
  /\ LET r == historyInitializer(args.articles)
     IN ret' = [done |-> TRUE, pc |-> "loaded", threw |-> r.threw,
                errors |-> ret.errors + r.errors, settings |-> ret.settings,
                wordHistory |-> ret.wordHistory, articleHistory |-> r.value]
  /\ UNCHANGED <<appVars, settingVars, req, readerVars, audioVars, hasSpeech,
                 args, popoverPos, dragVars, tapVars>>

\* a save effect runs: the value that changed and the state of the store
SaveInit ==
  \E write \in Writes, state \in {"ok", "full", "blocked"} :
    args = [op |-> "save", write |-> write,
            store |-> [state |-> state,
                       items |-> [k \in {w.key : w \in Writes} |->
                                    [kind |-> "missing"]]]]

SaveEffect(key) ==
  /\ args.op = "save"
  /\ args.write.key = key
  /\ ~ret.done
  /\ ret' = setItem(args.store, args.write)
  /\ UNCHANGED <<appVars, settingVars, req, readerVars, audioVars, hasSpeech,
                 args, popoverPos, dragVars, tapVars>>

\* useEffect(..., [wordHistory])
SaveWordHistory == SaveEffect("dansk_reader_word_history")

\* useEffect(..., [articleHistory])
SaveArticleHistory == SaveEffect("dansk_reader_article_history")

\* useEffect(..., [targetLang, showDetailed, autoPlayCount, ...])
SaveSettings == SaveEffect("dansk_reader_settings")

\* a long text to pronounce: a's, n code units in all, with nothing, a space,
\* an o with stroke, a euro sign or an emoji (a surrogate pair) from the k-th on
MaxSpeak == 202       \* code units of the longest text

Specials == {<<>>, <<32>>, <<248>>, <<8364>>, <<55357, 56832>>}

Filled(n, special, k) ==
  [i \in 1..n |-> IF i >= k /\ i < k + Len(special)
                  THEN special[i - k + 1] ELSE 97]

SpeakInit ==
  \E n \in {0, 1, 2} \cup (198..MaxSpeak) :
    \E special \in Specials :
      \E k \in {1, 199, 200, 201} :
        /\ k + Len(special) - 1 <= n
        /\ special = <<>> => k = 1
        /\ args = [op |-> "speak", text |-> Filled(n, special, k)]

\* ------------------------------------------------- controller alone
\* any caller: playPronunciation(text, languageCode, speed)
PlayCall(text, speed) ==
  /\ ~MicrotaskPending
  /\ Len(plays) < MaxPlays
  /\ playPronunciation(text, speed)
  /\ UNCHANGED nonAudio

\* any caller: stopAudio()
StopCall ==
  /\ ~MicrotaskPending
  /\ stopAudio
  /\ UNCHANGED nonAudio

\* ------------------------------------------------- specification
\* nothing was dragged
DragIdle ==
  /\ dragOffset = Zero
  /\ isDraggingRef = FALSE
  /\ held = FALSE
  /\ dragStartRef = Zero
  /\ initialDragOffsetRef = Zero
  /\ pointer = Zero
  /\ gestures = 0

Init ==
  /\ DragIdle
  /\ TapIdle
  /\ article = 0
  /\ currentDefinition = None
  /\ loadingState = "IDLE"
  /\ wordHistory = <<>>
  /\ currentRequestId = 0
  /\ alerts = 0
  /\ consoleErrors = 0
  /\ submitCalls = 0
  /\ autoPlayCount \in AutoPlayCounts
  /\ cycles = 0
  /\ req = <<>>
  /\ isPlayingAudio = FALSE
  /\ manualPlay = 0
  /\ popoverPos = 0
  /\ currentAudio = 0
  /\ currentResolve = 0
  /\ plays = <<>>
  /\ hasSpeech \in BOOLEAN
  /\ args = NoCall
  /\ ret = NotReturned

Next ==
  \/ \E hit \in Hits : handleClick(hit)
  \/ \E sel \in Selections :
       Gestures < MaxRequests /\ handleManualTranslateClick(sel)
  \/ ClosePopover
  \/ \E r \in Requests : TranslateResolve(r)
  \/ \E r \in Requests : TranslateReject(r)
  \/ \E r \in Requests : LoopResume(r)
  \/ \E r \in Requests : LoopTimer(r)
  \/ handlePlayAudio
  \/ PlayAudioResume
  \/ \E a \in ArticleIds : handlePasteArticle(a)
  \/ cycleAutoPlay
  \/ \E p \in Plays : AudioEnded(p)
  \/ \E p \in Plays : AudioErrorEvent(p)
  \/ \E p \in Plays : PlayStartRejected(p)
  \/ \E p \in Plays : UtteranceEnd(p)
  \/ \E p \in Plays : UtteranceError(p)

Spec == Init /\ [][Next]_vars

\* the audio controller under arbitrary calls of its two operations
InitAudio == Init /\ autoPlayCount = 3

NextAudio ==
  \/ \E t \in Texts, s \in Speeds : PlayCall(t, s)
  \/ StopCall
  \/ \E p \in Plays : AudioEnded(p)
  \/ \E p \in Plays : AudioErrorEvent(p)
  \/ \E p \in Plays : PlayStartRejected(p)
  \/ \E p \in Plays : UtteranceEnd(p)
  \/ \E p \in Plays : UtteranceError(p)

SpecAudio == InitAudio /\ [][NextAudio]_vars

\* the span resolver applied to every hit of every block
InitSpan ==
  /\ DragIdle
  /\ TapIdle
  /\ article = 1
  /\ currentDefinition = None
  /\ loadingState = "IDLE"
  /\ wordHistory = <<>>
  /\ currentRequestId = 0
  /\ alerts = 0
  /\ consoleErrors = 0
  /\ submitCalls = 0
  /\ autoPlayCount = 3
  /\ cycles = 0
  /\ req = <<>>
  /\ isPlayingAudio = FALSE
  /\ manualPlay = 0
  /\ popoverPos = 0
  /\ currentAudio = 0
  /\ currentResolve = 0
  /\ plays = <<>>
  /\ hasSpeech = TRUE
  /\ ClickInit
  /\ ret = NotReturned

NextSpan == ResolveCall

SpecSpan == InitSpan /\ [][NextSpan]_vars

\* the application with an article loaded and nothing looked up
AppLoaded ==
  /\ DragIdle
  /\ TapIdle
  /\ article = 1
  /\ currentDefinition = None
  /\ loadingState = "IDLE"
  /\ wordHistory = <<>>
  /\ currentRequestId = 0
  /\ alerts = 0
  /\ consoleErrors = 0
  /\ submitCalls = 0
  /\ autoPlayCount = 3
  /\ cycles = 0
  /\ req = <<>>
  /\ isPlayingAudio = FALSE
  /\ manualPlay = 0
  /\ popoverPos = 0
  /\ currentAudio = 0
  /\ currentResolve = 0
  /\ plays = <<>>
  /\ hasSpeech = TRUE

\* the context of every selection of every block
InitSelect == AppLoaded /\ SelectInit /\ ret = NotReturned

NextSelect == SelectCall

SpecSelect == InitSelect /\ [][NextSelect]_vars

\* translateWordInContext for every text and every answer of the providers
InitTranslate == AppLoaded /\ TranslateInit /\ ret = NotReturned

NextTranslate == TranslateCall \/ FetchSettles \/ JsonSettles \/ GenerateSettles

SpecTranslate == InitTranslate /\ [][NextTranslate]_vars

\* the popover dragged while words are looked up; auto-play is off. There is
\* one pointer: it clicks nothing while its button is down on the handle.
InitDrag == Init /\ autoPlayCount = 0 /\ ~hasSpeech

NextDrag ==
  \/ \E a \in ArticleIds : ~held /\ handlePasteArticle(a)
  \/ \E hit \in Hits : ~held /\ handleClick(hit)
  \/ ~held /\ ClosePopover
  \/ \E r \in Requests : TranslateResolve(r)
  \/ \E r \in Requests : TranslateReject(r)
  \/ \E p \in Points, button \in {0, 2} : handlePointerDown(p, button)
  \/ \E p \in Points : handlePointerMove(p)
  \/ handlePointerUp
  \/ PointerUpElsewhere

SpecDrag == InitDrag /\ [][NextDrag]_vars

\* the Translate Selection button tapped on a touch device, with an article
\* loaded. Timers fire on time: the clock does not pass a timer that is due.
MaxTaps == 3          \* runs of handleManualTranslate
MaxTicks == 9         \* the clock stops after MaxTicks tenths of a second

Times == {100 * k : k \in 0..MaxTicks}

Tick ==
  /\ \E t \in Times :
       /\ t > now
       /\ \A due \in timers : t <= due
       /\ now' = t
  /\ UNCHANGED <<appVars, settingVars, req, readerVars, audioVars, hasSpeech,
                 callVars, popoverPos, dragVars, manualTranslateTouchRef,
                 timers, lastTouchEnd, clickPending>>

InitTap == AppLoaded /\ args = NoCall /\ ret = NotReturned

NextTap ==
  \/ \E sel \in Selections :
       Gestures < MaxTaps /\ handleManualTranslateTouch(sel)
  \/ \E sel \in Selections :
       /\ clickPending
       /\ manualTranslateTouchRef \/ Gestures < MaxTaps
       /\ handleManualTranslateClick(sel)
  \/ TouchFlagTimeout
  \/ Tick
  \/ \E r \in Requests : TranslateResolve(r)
  \/ \E r \in Requests : TranslateReject(r)

SpecTap == InitTap /\ [][NextTap]_vars

\* playPronunciation for texts around the limit, the audio element and the
\* fallback utterance
InitSpeak == AppLoaded /\ SpeakInit /\ ret = NotReturned

NextSpeak ==
  \/ args.op = "speak" /\ PlayCall(args.text, DefaultSpeed)
  \/ \E p \in Plays : AudioEnded(p)
  \/ \E p \in Plays : AudioErrorEvent(p)
  \/ \E p \in Plays : UtteranceEnd(p)
  \/ \E p \in Plays : UtteranceError(p)

SpecSpeak == InitSpeak /\ [][NextSpeak]_vars

\* the three loads of startup for every content of the store
InitLoad == AppLoaded /\ LoadInit /\ ret = NotReturned

NextLoad == LoadSettings \/ LoadWordHistory \/ LoadArticleHistory

SpecLoad == InitLoad /\ [][NextLoad]_vars

\* the three save effects for every value and state of the store
InitSave == AppLoaded /\ SaveInit /\ ret = NotReturned

NextSave == SaveWordHistory \/ SaveArticleHistory \/ SaveSettings

SpecSave == InitSave /\ [][NextSave]_vars

\* the history update for every history and accepted result
InitHistory == AppLoaded /\ HistoryInit /\ ret = NotReturned

NextHistory == HistoryCall

SpecHistory == InitHistory /\ [][NextHistory]_vars

\* the popover's placement for every window, container and span, with the
\* Definition of a clicked word shown and nothing playing
InitPopover ==
  /\ DragIdle
  /\ TapIdle
  /\ article = 1
  /\ currentDefinition = [word |-> tale, req |-> 1]
  /\ loadingState = "IDLE"
  /\ wordHistory = <<[word |-> tale, req |-> 1]>>
  /\ currentRequestId = 1
  /\ alerts = 0
  /\ consoleErrors = 0
  /\ submitCalls = 1
  /\ autoPlayCount = 0
  /\ cycles = 0
  /\ req = <<[word |-> <<>>, i |-> 0, requestId |-> 1, isSentence |-> FALSE,
              count |-> 0, lpc |-> "none", play |-> 0, pc |-> "done",
              outcome |-> "shown"]>>
  /\ isPlayingAudio = FALSE
  /\ manualPlay = 0
  /\ popoverPos = 1
  /\ currentAudio = 0
  /\ currentResolve = 0
  /\ plays = <<>>
  /\ hasSpeech = TRUE
  /\ RenderInit
  /\ ret = NotReturned

NextPopover == RenderCall

SpecPopover == InitPopover /\ [][NextPopover]_vars

\* renderPopover for spans down the container and a popover that was dragged
InitPlace ==
  /\ article = 1
  /\ currentDefinition = [word |-> tale, req |-> 1]
  /\ loadingState = "IDLE"
  /\ wordHistory = <<[word |-> tale, req |-> 1]>>
  /\ currentRequestId = 1
  /\ alerts = 0
  /\ consoleErrors = 0
  /\ submitCalls = 1
  /\ autoPlayCount = 0
  /\ cycles = 0
  /\ req = <<[word |-> <<>>, i |-> 0, requestId |-> 1, isSentence |-> FALSE,
              count |-> 0, lpc |-> "none", play |-> 0, pc |-> "done",
              outcome |-> "shown"]>>
  /\ isPlayingAudio = FALSE
  /\ manualPlay = 0
  /\ popoverPos = 1
  /\ currentAudio = 0
  /\ currentResolve = 0
  /\ plays = <<>>
  /\ hasSpeech = TRUE
  /\ PlaceInit
  /\ ret = NotReturned

NextPlace == RenderCall

SpecPlace == InitPlace /\ [][NextPlace]_vars

\* completions and continuations are not postponed for ever
FairSpec ==
  /\ Spec
  /\ WF_vars(\E r \in Requests : TranslateResolve(r) \/ TranslateReject(r))
  /\ WF_vars((\E r \in Requests : LoopResume(r)) \/ PlayAudioResume)

\* ------------------------------------------------- properties
\* steps of the handlers, as seen in a pair of states
SubmitStep == submitCalls' = submitCalls + 1
CompletionStep(r) == req[r].pc = "translating" /\ req'[r].pc = "done"
IsStale(r) == req[r].requestId # currentRequestId
LoopPlayStep(r) ==
  /\ req'[r].lpc = "awaitPlay"
  /\ req[r].lpc # "awaitPlay" \/ req'[r].play # req[r].play
Sounding == {p \in Plays : plays[p].audio = "active"}
Speaking == {p \in Plays : plays[p].utter = "speaking"}
Pending == {p \in Plays : plays[p].promise = "pending"}

\* C1: when the translation call of a request that is no longer the current
\* generation completes, with a result or an error, the shown Definition, the
\* loading state and the word history stay as they are, nothing is reported
\* (no alert, no console error), and no auto-play loop or playback is started.
C1_StaleCompletionIsSilent ==
  [][\A r \in Requests :
       (CompletionStep(r) /\ IsStale(r)) =>
          /\ UNCHANGED <<currentDefinition, loadingState, wordHistory, alerts,
                         consoleErrors, audioVars>>
          /\ req'[r].lpc = "none"]_vars

C1_Witness == \E r \in Requests : req[r].outcome = "stale"

\* C2: a shown Definition is always the result of the request whose generation
\* equals the generation counter; an earlier request's result is never shown
\* once a later submit was issued.
C2_ShownIsCurrent ==
  currentDefinition # None =>
     /\ currentDefinition.req \in Requests
     /\ req[currentDefinition.req].requestId = currentRequestId
     /\ currentDefinition.req = Len(req)

C2_Witness ==
  /\ Len(req) = 2
  /\ req[1].outcome = "stale"
  /\ currentDefinition # None
  /\ currentDefinition.req = 2

\* C3 (as stated): after N calls of handleWordSelect the counter is its initial
\* value 0 plus N.
C3_CounterEqualsCalls == currentRequestId = submitCalls

\* C3 (amended): a call of handleWordSelect made while an article is loaded
\* increments the counter by exactly one, a call made with no article leaves it
\* unchanged, no other step changes it, it equals the number of requests
\* issued, and no two requests capture the same generation.
C3_CounterCountsAcceptedCalls ==
  [][/\ (SubmitStep /\ HasArticle) => currentRequestId' = currentRequestId + 1
     /\ (SubmitStep /\ ~HasArticle) => currentRequestId' = currentRequestId
     /\ ~SubmitStep => currentRequestId' = currentRequestId
     /\ currentRequestId' = Len(req')
     /\ \A r1, r2 \in DOMAIN req' :
          r1 # r2 => req'[r1].requestId # req'[r2].requestId]_vars

C3_Witness == Len(req) = 2 /\ currentRequestId = 2 /\ submitCalls = 2

\* C4: once a later submit has run (its stopAudio included), the auto-play loop
\* of the superseded request calls playPronunciation no more, whether it was
\* awaiting a play or in its pause.
C4_SupersededLoopPlaysNoMore ==
  [][\A r \in Requests : IsStale(r) => ~LoopPlayStep(r)]_vars

C4_Witness == \E r \in Requests : req[r].lpc = "aborted"

\* C5: in the state right after any call of handleWordSelect no primary audio
\* is current or sounding, no utterance is queued, the controller holds no
\* resolver and no play promise is pending.
C5_NothingPlaysAfterSubmit ==
  [][SubmitStep =>
       /\ currentAudio' = 0
       /\ currentResolve' = 0
       /\ \A p \in DOMAIN plays' :
            /\ plays'[p].audio # "active"
            /\ plays'[p].utter # "speaking"
            /\ plays'[p].promise # "pending"]_vars

\* a submit has just stopped the play an auto-play loop was awaiting
C5_Witness ==
  /\ req # <<>>
  /\ req[Len(req)].pc = "translating"
  /\ currentAudio = 0
  /\ \E r \in Requests :
       /\ req[r].lpc = "awaitPlay"
       /\ plays[req[r].play].promise = "resolved"
       /\ plays[req[r].play].audio = "stopped"

\* C6 (as stated): right after any call of handleWordSelect the loading state
\* is TRANSLATING and no Definition is shown.
C6_LoadingAfterAnySubmit ==
  [][SubmitStep => (loadingState' = "TRANSLATING" /\ currentDefinition' = None)]_vars

\* C6 (amended): right after a call of handleWordSelect made while an article
\* is loaded the loading state is TRANSLATING and no Definition is shown,
\* whatever they were before; a call made with no article changes neither.
C6_LoadingAfterAcceptedSubmit ==
  [][/\ (SubmitStep /\ HasArticle) =>
          (loadingState' = "TRANSLATING" /\ currentDefinition' = None)
     /\ (SubmitStep /\ ~HasArticle) =>
          UNCHANGED <<loadingState, currentDefinition>>]_vars

\* a submit issued while a Definition was shown and nothing was loading
C6_Witness ==
  /\ Len(req) = 2
  /\ req[1].outcome = "shown"
  /\ req[2].pc = "translating"
  /\ loadingState = "TRANSLATING"
  /\ currentDefinition = None

\* C7: the completion of the current request's translation call clears the
\* loading state, and once submits have stopped and the calls have completed
\* the loading state is IDLE for good.
C7_LoadingIsCleared ==
  /\ [][\A r \in Requests :
          (CompletionStep(r) /\ ~IsStale(r)) => loadingState' = "IDLE"]_vars
  /\ <>[](loadingState = "IDLE")

\* a superseded request completed without clearing, the current one cleared
C7_Witness ==
  /\ Len(req) = 2
  /\ req[1].outcome = "stale"
  /\ req[2].outcome \in {"shown", "failed"}
  /\ loadingState = "IDLE"

\* C8: when the current request's translation call fails, the failure reaches
\* the user (an alert, or the ERROR loading state), loading is no longer shown,
\* no Definition is shown and no second call is made.
C8_FailureIsSurfaced ==
  [][\A r \in Requests :
       (CompletionStep(r) /\ req'[r].outcome = "failed") =>
          /\ alerts' = alerts + 1 \/ loadingState' = "ERROR"
          /\ loadingState' # "TRANSLATING"
          /\ currentDefinition' = None
          /\ Len(req') = Len(req)]_vars

\* C9: when the current request's translation succeeds, its auto-play loop
\* starts exactly when the lookup is not a phrase or sentence and the
\* autoPlayCount it was submitted with is positive; a phrase or sentence
\* lookup never starts a loop or a playback.
C9_AutoPlayOnlyForWords ==
  [][\A r \in Requests :
       /\ (CompletionStep(r) /\ req'[r].outcome = "shown") =>
             ((req'[r].lpc = "awaitPlay" /\ Len(plays') = Len(plays) + 1)
                <=> (~req[r].isSentence /\ req[r].count > 0))
       /\ req[r].isSentence =>
             (req'[r].lpc = "none" /\ (CompletionStep(r) => UNCHANGED audioVars))]_vars

\* a selection lookup was shown with auto-play switched on, and nothing played
C9_Witness ==
  /\ currentDefinition # None
  /\ currentDefinition.word = kanIkkeTale
  /\ cycles = 0
  /\ autoPlayCount > 0
  /\ plays = <<>>

\* C10: at most one playback is active: at most one primary audio element or
\* on-device utterance sounds, and at most one play promise is pending, the
\* one the controller holds.
C10_AtMostOnePlayback ==
  /\ Cardinality(Sounding) + (IF Speaking = {} THEN 0 ELSE 1) <= 1
  /\ Cardinality(Pending) <= 1
  /\ \A p \in Pending : currentResolve = p

\* a step that is one call of stopAudio and nothing else of the controller
StopStep == handleClearSelection \/ (SubmitStep /\ HasArticle)

\* C11: a call of stopAudio leaves no primary audio sounding (the current
\* element is paused and detached), leaves no utterance queued, resolves every
\* play promise that was pending, whether that play was on the primary or on
\* the fallback path, and leaves the controller with no current audio and no
\* resolver; a promise it resolved is never rejected afterwards.
C11_StopResolvesAndClears ==
  [][/\ StopStep =>
          /\ currentAudio' = 0
          /\ currentResolve' = 0
          /\ currentAudio # 0 => plays'[currentAudio].audio \in {"stopped", "dead"}
          /\ \A p \in Plays :
               /\ plays'[p].audio # "active"
               /\ plays'[p].utter # "speaking"
               /\ plays[p].promise = "pending" => plays'[p].promise = "resolved"
     /\ \A p \in Plays :
          plays[p].promise = "resolved" => plays'[p].promise = "resolved"]_vars

\* the only play was stopped while its fallback utterance was speaking
C11_Witness ==
  /\ Len(plays) = 1
  /\ plays[1].utter = "cancelled"
  /\ plays[1].promise = "resolved"
  /\ currentAudio = 0
  /\ currentResolve = 0

\* the controller state a call of stopAudio leaves, from plays ps and the
\* module variables ca, cr
AfterStop(ps, ca, cr) ==
  [plays |-> StopAudioPlays(ps, ca, cr), currentAudio |-> 0, currentResolve |-> 0]

Controller == [plays |-> plays, currentAudio |-> currentAudio,
               currentResolve |-> currentResolve]

NothingPlaying == Sounding = {} /\ Speaking = {} /\ Pending = {}

\* C12: when no audio sounds, no utterance is queued and no play is pending, a
\* call of stopAudio leaves the controller (module variables, elements,
\* utterances, promises) as it was; and in every state two calls in a row
\* leave what one call leaves.
C12_StopIsIdempotent ==
  LET once == AfterStop(plays, currentAudio, currentResolve)
      twice == AfterStop(once.plays, once.currentAudio, once.currentResolve)
  IN /\ NothingPlaying => once = Controller
     /\ twice = once

BecomesRejected(p) == plays[p].promise # "rejected" /\ plays'[p].promise = "rejected"
FallbackStarts(p) == plays[p].utter # "speaking" /\ plays'[p].utter = "speaking"

Clicked == args.op = "click" /\ ret.done
HitText == args.nodes[args.node]

\* [s, e) is the maximal run of word characters of text around offset o
IsMaximalRun(text, o, s, e) ==
  /\ s <= o /\ o < e /\ e <= Len(text)
  /\ \A i \in (s + 1)..e : isWordChar(text[i])
  /\ s = 0 \/ ~isWordChar(text[s])
  /\ e = Len(text) \/ ~isWordChar(text[e + 1])

\* a run of hyphens alone is punctuation, not a word
HasLetterOrDigit(run) == \E i \in DOMAIN run : run[i] # Hyphen

\* C14: when the caret offset of a click has a word character at it, the
\* resolved span is the maximal run of word characters of the text node that
\* contains the offset, with its boundaries at the first non-word character
\* (or the end of the node) on each side; no resolved span holds a non-word
\* character. (A run of hyphens alone resolves to no span.)
C14_SpanIsMaximalRun ==
  Clicked =>
    /\ (args.node # 0 /\ args.offset < Len(HitText)
          /\ isWordChar(HitText[args.offset + 1])) =>
         \E s, e \in 0..Len(HitText) :
           /\ IsMaximalRun(HitText, args.offset, s, e)
           /\ IF HasLetterOrDigit(substring(HitText, s, e))
              THEN /\ ret.kind = "select"
                   /\ ret.word = substring(HitText, s, e)
                   /\ ret.start = s /\ ret.end = e
              ELSE ret.kind = "clear"
    /\ ret.kind = "select" => \A i \in DOMAIN ret.word : isWordChar(ret.word[i])
    /\ (args.nodes = <<Sentence>> /\ args.offset \in 13..16) => ret.word = tale

\* the click of the scenario: inside "tale" of "Han kan ikke tale dansk."
C14_Witness ==
  /\ Clicked
  /\ args.nodes = <<Sentence>>
  /\ args.offset = 15
  /\ ret.kind = "select"
  /\ ret.word = tale
  /\ ret.start = 13 /\ ret.end = 17

\* C15: a click whose caret offset has a character that is not a word
\* character (white space, punctuation) at it resolves to no span, also when
\* that character follows a word.
C15_NonWordHitIsNull ==
  (Clicked /\ args.node # 0 /\ args.offset < Len(HitText)
     /\ ~isWordChar(HitText[args.offset + 1]))
    => ret.kind = "clear"

\* the flattened block, the global offsets of the resolved span, and the
\* sentence bounds as the nearest terminators around it
FullText == textContent(args.nodes)
GlobalStart == Len(textContent(SubSeq(args.nodes, 1, args.node - 1))) + ret.start
GlobalEnd == GlobalStart + (ret.end - ret.start)
Terminated(text) == {i \in DOMAIN text : text[i] \in terminators}
SentenceStart ==
  LET before == {i \in Terminated(FullText) : i <= GlobalStart}
  IN IF before = {} THEN 0 ELSE CHOOSE i \in before : \A j \in before : j <= i
SentenceEnd ==
  LET after == {i \in Terminated(FullText) : i > GlobalEnd}
  IN IF after = {} THEN Len(FullText) ELSE CHOOSE i \in after : \A j \in after : i <= j
SentenceOfSpan == substring(FullText, SentenceStart, SentenceEnd)

\* u is t without its leading and trailing white space
IsTrimOf(u, t) ==
  \E a \in 1..(Len(t) + 1), b \in 0..Len(t) :
    /\ u = SubSeq(t, a, b)
    /\ \A i \in 1..(a - 1) : IsWhiteSpace(t[i])
    /\ \A i \in (b + 1)..Len(t) : IsWhiteSpace(t[i])
    /\ u # <<>> => (~IsWhiteSpace(u[1]) /\ ~IsWhiteSpace(u[Len(u)]))

\* C16 (as stated): the context of a resolved word is the substring of the
\* flattened block from just after the nearest terminator before the span (or
\* the block start) to the nearest terminator at or after its end, included
\* (or the block end).
C16_ContextIsSentence ==
  (Clicked /\ ret.kind = "select") => ret.context = SentenceOfSpan

\* C16 (amended): the context is that substring with its leading and trailing
\* white space removed; it contains the span, holds no terminator except as
\* its last character, and clicking "tale" in "Han kan ikke tale dansk."
\* yields the whole sentence.
C16_ContextIsTrimmedSentence ==
  (Clicked /\ ret.kind = "select") =>
    /\ IsTrimOf(ret.context, SentenceOfSpan)
    /\ \E i \in DOMAIN ret.context :
         SubSeq(ret.context, i, i + Len(ret.word) - 1) = ret.word
    /\ \A i \in Terminated(ret.context) : i = Len(ret.context)
    /\ args.nodes = <<Sentence>> => ret.context = Sentence

\* the word "t" of the block ". t " split over two text nodes: the sentence
\* after the full stop is " t ", the context "t"
C16_Witness ==
  /\ Clicked
  /\ args.nodes = << <<46, 32>>, <<116, 32>> >>
  /\ args.node = 2
  /\ ret.kind = "select"
  /\ ret.context = <<116>>
  /\ SentenceOfSpan = <<32, 116, 32>>

\* ------------------------------------------------- misses and selections
\* the hit yields no token with a letter or digit: no text node, or only
\* hyphens (or nothing) between the nearest non-word characters around the
\* caret offset
IsMiss(hit) ==
  \/ hit.node = 0
  \/ LET text == hit.nodes[hit.node] IN
     \E s, e \in 0..Len(text) :
       /\ s <= hit.offset /\ hit.offset <= e
       /\ \A i \in (s + 1)..e : isWordChar(text[i])
       /\ s = 0 \/ ~isWordChar(text[s])
       /\ e = Len(text) \/ ~isWordChar(text[e + 1])
       /\ ~HasLetterOrDigit(substring(text, s, e))

Misses == {hit \in Hits : IsMiss(hit)}

HasText(sel) == \E i \in DOMAIN sel : ~IsWhiteSpace(sel[i])

\* C18: the Translate Selection button, pressed with a selection that is not
\* collapsed (and not white space alone) while an article is loaded, submits
\* the selection string without its leading and trailing white space and
\* otherwise unchanged, as a phrase or sentence (isSentence = true).
C18_SelectionSubmittedTrimmed ==
  [][\A sel \in Selections :
       (handleManualTranslate(sel) /\ HasText(sel) /\ HasArticle) =>
          /\ submitCalls' = submitCalls + 1
          /\ Len(req') = Len(req) + 1
          /\ IsTrimOf(req'[Len(req')].word, sel)
          /\ req'[Len(req')].isSentence]_vars

\* " kan ikke tale. " was selected and submitted as "kan ikke tale."
C18_Witness ==
  /\ req # <<>>
  /\ req[Len(req)].pc = "translating"
  /\ req[Len(req)].isSentence
  /\ req[Len(req)].word = kanIkkeTale

Rendered == args.op = "render" /\ ret.done

\* the container is wide enough for the popover and its two margins
Fits == ret.containerWidth >= ret.popoverWidth + 2 * margin

\* C20 (as stated): for every span rectangle, container width and popover
\* width (288 or 320) the popover's center is at most containerWidth -
\* popoverWidth/2 - margin and at least popoverWidth/2 + margin, so the box
\* lies within [margin, containerWidth - margin].
C20_CenterWithinBounds ==
  Rendered =>
    /\ ret.popoverWidth \in {288, 320}
    /\ 2 * ret.left <= 2 * ret.containerWidth - ret.popoverWidth - 2 * margin
    /\ 2 * ret.left >= ret.popoverWidth + 2 * margin
    /\ 2 * ret.left - ret.popoverWidth >= 2 * margin
    /\ 2 * ret.left + ret.popoverWidth <= 2 * (ret.containerWidth - margin)

\* C20 (amended): the popover's center is never below popoverWidth/2 + margin;
\* in a container of at least popoverWidth + 2 * margin it is also at most
\* containerWidth - popoverWidth/2 - margin, the box lies within
\* [margin, containerWidth - margin] and the center is the span's center when
\* that is between the two limits; in a narrower container the center is
\* popoverWidth/2 + margin, beyond the upper limit.
C20_CenterWithinBoundsWhenFits ==
  Rendered =>
    LET c2 == 2 * ret.left
        lo2 == ret.popoverWidth + 2 * margin
        hi2 == 2 * ret.containerWidth - ret.popoverWidth - 2 * margin
        word2 == 2 * args.popoverPos.left + args.popoverPos.width
    IN /\ ret.popoverWidth \in {288, 320}
       /\ c2 >= lo2
       /\ Fits =>
            /\ c2 <= hi2
            /\ c2 - ret.popoverWidth >= 2 * margin
            /\ c2 + ret.popoverWidth <= 2 * (ret.containerWidth - margin)
            /\ (lo2 <= word2 /\ word2 <= hi2) => c2 = word2
            /\ word2 > hi2 => c2 = hi2
       /\ ~Fits => (c2 = lo2 /\ c2 > hi2)

\* a word at the right edge of a container that holds the wide popover: the
\* center is held at the upper limit, left of the word
C20_Witness ==
  /\ Rendered
  /\ ret.popoverWidth = 320
  /\ Fits
  /\ args.popoverPos.left + args.popoverPos.width = ret.containerWidth
  /\ args.popoverPos.width = Px(5)
  /\ ret.left = ret.containerWidth - 160 - margin
  /\ ret.left < args.popoverPos.left

\* twice the distance from the popover's center to the span's center
WordOffset2 == 2 * args.popoverPos.left + args.popoverPos.width - 2 * ret.left

\* C21: the indicator's offset from the popover's center (its marginLeft) is
\* the span's center minus the popover's center, held within
\* [-(popoverWidth/2 - 24), popoverWidth/2 - 24]: its magnitude is at most
\* popoverWidth/2 - 24 and the indicator's center stays 24 pixels or more
\* inside the popover box, also when the popover's center was clamped.
C21_IndicatorOffsetClamped ==
  Rendered =>
    LET lim2 == ret.popoverWidth - 48
        off2 == 2 * ret.marginLeft
        box2 == 2 * ret.left - ret.popoverWidth
    IN /\ (0 - lim2 <= WordOffset2 /\ WordOffset2 <= lim2) => off2 = WordOffset2
       /\ WordOffset2 > lim2 => off2 = lim2
       /\ WordOffset2 < 0 - lim2 => off2 = 0 - lim2
       /\ off2 <= lim2 /\ 0 - lim2 <= off2
       /\ 2 * (ret.left + ret.marginLeft) >= box2 + 48
       /\ 2 * (ret.left + ret.marginLeft) <= box2 + 2 * ret.popoverWidth - 48

\* a word at the right edge: the popover's center was held at its upper
\* limit and the indicator at its own, short of the word's center
C21_Witness ==
  /\ Rendered
  /\ Fits
  /\ 2 * ret.left = 2 * ret.containerWidth - ret.popoverWidth - 2 * margin
  /\ WordOffset2 > ret.popoverWidth - 48
  /\ 2 * ret.marginLeft = ret.popoverWidth - 48

\* ------------------------------------------------- translation properties
Translated == args.op = "translate" /\ ret.done

\* the cheap provider failed: no answer, a status that is not OK, a body
\* that is no JSON, or a reply that holds no translation
CheapFailed ==
  \/ args.cheap.fetch # "ok"
  \/ ~args.cheap.parses
  \/ args.cheap.data # JArr(<<JArr(<<JArr(<<JStr(speak), JStr(tale)>>)>>)>>)

\* C22: without requestDetailed the cheap provider is tried first and, when
\* it succeeds, its result is returned and the rich provider is not called;
\* when it fails in any way (network, status, unparsable or empty reply) the
\* rich provider is called and the failure is not passed on; with
\* requestDetailed the cheap provider is not called; the call is rejected
\* exactly when the rich provider was called and failed.
C22_CheapFailureFallsThrough ==
  Translated =>
    /\ args.requestDetailed => (ret.fetchCalls = 0 /\ ret.generateCalls = 1)
    /\ (~args.requestDetailed /\ ~CheapFailed) =>
          /\ ret.fetchCalls = 1 /\ ret.generateCalls = 0
          /\ ret.outcome = "resolved" /\ ret.translation = JStr(speak)
    /\ (~args.requestDetailed /\ CheapFailed) =>
          (ret.fetchCalls = 1 /\ ret.generateCalls = 1)
    /\ ret.outcome = "rejected" <=> (ret.generateCalls = 1 /\ args.rich # "json")

\* ------------------------------------------------- history properties
Added == args.op = "history" /\ ret.done

\* the entry has the word of the new one, ignoring case, and is no older
\* than the recency window
RecentDuplicate(item) ==
  /\ toLowerCase(item.word) = toLowerCase(args.newItem.word)
  /\ args.now - item.timestamp <= RecencyWindow

\* C23: after an accepted result the new Definition is the first entry of
\* the word history, the history holds at most 100 entries, and no other
\* entry has the new word (ignoring case) within the recency window.
C23_HistoryNewestBoundedDeduplicated ==
  Added =>
    /\ ret.history # <<>>
    /\ ret.history[1] = args.newItem
    /\ Len(ret.history) <= HistoryCap
    /\ \A i \in 2..Len(ret.history) : ~RecentDuplicate(ret.history[i])

\* ------------------------------------------------- persistence properties
\* the key is missing or its string is no JSON (or the store cannot be read)
NoData(content) == content.kind # "text" \/ ~content.parses

\* the key holds the JSON of a value of the kind the application saves
ValidData(content, t) ==
  content.kind = "text" /\ content.parses /\ content.value.t = t

\* C24: whatever the store holds at startup, the three loads do not throw;
\* a key that is missing or unparsable gives the default (DEFAULT_SETTINGS,
\* the empty list); saved settings replace the defaults field by field, a
\* field not saved keeping its default (the autoPlayAudio flag of earlier
\* versions is read as autoPlayCount 3 or 0); a saved list is the history.
C24_LoadFallsBackToDefaults ==
  (args.op = "load" /\ ret # NotReturned) =>
    /\ ~ret.threw
    /\ NoData(args.settings) => ret.settings = DEFAULT_SETTINGS
    /\ ValidData(args.settings, "obj") =>
          LET saved == args.settings.value.v IN
          /\ DOMAIN ret.settings = DOMAIN DEFAULT_SETTINGS
          /\ \A f \in DOMAIN DEFAULT_SETTINGS :
                ret.settings[f] =
                  IF f = "autoPlayCount" /\ "autoPlayAudio" \in DOMAIN saved
                  THEN (IF saved.autoPlayAudio THEN 3 ELSE 0)
                  ELSE IF f \in DOMAIN saved THEN saved[f]
                  ELSE DEFAULT_SETTINGS[f]
    /\ ret.pc \in {"articles", "loaded"} =>
          /\ NoData(args.words) => ret.wordHistory = JArr(<<>>)
          /\ ValidData(args.words, "arr") => ret.wordHistory = args.words.value
    /\ ret.pc = "loaded" =>
          /\ ret.done
          /\ NoData(args.articles) => ret.articleHistory = JArr(<<>>)
          /\ ValidData(args.articles, "arr") =>
                ret.articleHistory = args.articles.value

\* the saved language alone replaced its default, the word history was no
\* JSON and loaded as the empty list with one console error, and the
\* article history loaded as saved
C24_Witness ==
  /\ args.op = "load"
  /\ ret.done
  /\ ~ret.threw
  /\ args.settings.kind = "text" /\ args.settings.parses
  /\ args.settings.value = JObj([targetLang |-> "zh"])
  /\ ret.settings = [DEFAULT_SETTINGS EXCEPT !.targetLang = "zh"]
  /\ args.words.kind = "text" /\ ~args.words.empty /\ ~args.words.parses
  /\ ret.wordHistory = JArr(<<>>)
  /\ ret.errors = 1
  /\ ret.articleHistory = JArr(<<Sentence>>)

\* C25: a write to the store that fails is dropped silently: the save effect
\* raises no error into the application, the user is shown nothing, and the
\* state in memory is as it was.
C25_FailedWriteSilentlyDropped ==
  (args.op = "save" /\ ret.done /\ args.store.state # "ok") =>
    /\ ~ret.threw
    /\ ret.items = args.store.items
    /\ alerts = 0 /\ consoleErrors = 0
    /\ AppLoaded

\* ------------------------------------------------- auto-play loop properties
\* the loop of request r comes to position lpc in this step
LoopComes(r, lpc) == req[r].lpc # lpc /\ req'[r].lpc = lpc

\* C26: the loop of a request calls play at most autoPlayCount times (the
\* value taken at the submit) and exactly that often when it runs to its
\* end; each call follows a comparison of its generation with the counter
\* that found them equal; it pauses only after a play that resolved and is
\* not the last, and ends right after the last; it leaves at a play that
\* rejects, starting no other; and a play that fails leaves the Definition,
\* the loading state and the history as they were.
C26_AutoPlayLoopBounded ==
  [][\A r \in Requests :
       /\ LoopPlayStep(r) =>
             /\ req'[r].i < req'[r].count
             /\ req'[r].requestId = currentRequestId'
             /\ Len(plays') = Len(plays) + 1
             /\ \/ CompletionStep(r) /\ req'[r].i = 0
                \/ req[r].lpc = "pause" /\ req'[r].i = req[r].i + 1
       /\ LoopComes(r, "pause") =>
             /\ req[r].lpc = "awaitPlay"
             /\ plays[req[r].play].promise = "resolved"
             /\ req[r].i < req[r].count - 1
             /\ UNCHANGED plays
       /\ LoopComes(r, "done") =>
             /\ req[r].lpc = "awaitPlay"
             /\ plays[req[r].play].promise = "resolved"
             /\ req[r].i + 1 = req[r].count
             /\ UNCHANGED plays
       /\ LoopComes(r, "aborted") =>
             /\ req[r].lpc = "pause"
             /\ req[r].requestId # currentRequestId
             /\ UNCHANGED plays
       /\ LoopComes(r, "failed") =>
             /\ req[r].lpc = "awaitPlay"
             /\ plays[req[r].play].promise = "rejected"
             /\ UNCHANGED <<plays, currentDefinition, loadingState,
                            wordHistory, alerts, consoleErrors>>
       /\ (req[r].lpc = "awaitPlay" /\ plays[req[r].play].promise = "pending"
             /\ plays'[req[r].play].promise = "rejected") =>
             UNCHANGED <<currentDefinition, loadingState, wordHistory>>]_vars

\* a loop of two repetitions ran to its end: two plays, both resolved, the
\* Definition still shown
C26_Witness ==
  /\ Len(req) = 1
  /\ req[1].lpc = "done"
  /\ req[1].outcome = "shown"
  /\ Len(plays) = 2
  /\ \A p \in Plays : plays[p].promise = "resolved"
  /\ currentDefinition # None
  /\ currentRequestId = 1

\* a lookup is issued / a Definition is loaded
LookupIssued == Len(req') = Len(req) + 1
DefinitionLoaded ==
  \E r \in Requests : CompletionStep(r) /\ req'[r].outcome = "shown"

\* C27: whenever a new lookup is issued or a new Definition is loaded the drag
\* offset is reset to {0,0}, also for the word looked up before and also when
\* the lookup is issued while the previous one is still loading.
C27_DragOffsetResetOnLookup ==
  [][(LookupIssued \/ DefinitionLoaded) => dragOffset' = Zero]_vars

\* C28: the popover is below the span, its top edge 12 under the span's
\* bottom, exactly when the span's top is less than 200 from the container's
\* top; otherwise it is above the span, its bottom edge 12 over the span's
\* top; for every height of the popover and every drag offset (the drag moves
\* the box from that place by its offset).
C28_PlacedBelowUnderThreshold ==
  ret.done =>
    LET pos == args.popoverPos
        h == args.offsetHeight
    IN /\ pos.top < 200 =>
            /\ ret.top = pos.top + pos.height + 12
            /\ BoxTop(ret, h) - dragOffset.y = pos.top + pos.height + 12
       /\ ~(pos.top < 200) =>
            BoxBottom(ret, h) - dragOffset.y = pos.top - 12

C28_Witness ==
  /\ ret.done
  /\ args.popoverPos.top = 200
  /\ args.offsetHeight = Px(40)
  /\ dragOffset = [x |-> 0, y |-> 21]
  /\ BoxBottom(ret, Px(40)) = 209

\* a pointer move of a drag gesture
DragMove == held /\ isDraggingRef /\ pointer' # pointer

\* C29: the indicator is hidden exactly when the accumulated drag offset is
\* over 20 on an axis, and the accumulated offset is the sum of the deltas of
\* the drag gestures since the last reset: a move of a gesture adds its delta
\* to the offset (a gesture that was in progress at the reset may count from
\* its start), and any other step leaves the offset or resets it.
C29_IndicatorHiddenOverAccumulated20 ==
  /\ [](PopoverShown =>
          (opacity(dragOffset) = 0
             <=> (Abs(dragOffset.x) > 20 \/ Abs(dragOffset.y) > 20)))
  /\ [][IF DragMove
        THEN \/ dragOffset' = Plus(dragOffset, Minus(pointer', pointer))
             \/ dragOffset' = Minus(pointer', dragStartRef)
        ELSE dragOffset' \in {dragOffset, Zero}]_vars

UnHex(d) == IF d < 58 THEN d - 48 ELSE d - 55
ByteAt(q, i) == 16 * UnHex(q[i + 1]) + UnHex(q[i + 2])

\* what the provider reads in the q parameter of the url, the code units of
\* the percent-decoded UTF-8. At the i-th character of q: a character that
\* stands for itself, the percent sign of a code point's first byte, or a
\* part of an escape that was read with its first byte.
DecodedAt(q, i) ==
  IF q[i] # 37
  THEN IF (i > 1 /\ q[i - 1] = 37) \/ (i > 2 /\ q[i - 2] = 37)
       THEN <<>> ELSE <<q[i]>>
  ELSE LET b == ByteAt(q, i) IN
       IF b < 128 THEN <<b>>
       ELSE IF b < 192 THEN <<>>
       ELSE IF b < 224 THEN <<(b - 192) * 64 + (ByteAt(q, i + 3) - 128)>>
       ELSE IF b < 240
            THEN <<(b - 224) * 4096 + (ByteAt(q, i + 3) - 128) * 64
                     + (ByteAt(q, i + 6) - 128)>>
       ELSE LET cp == (b - 240) * 262144 + (ByteAt(q, i + 3) - 128) * 4096
                        + (ByteAt(q, i + 6) - 128) * 64
                        + (ByteAt(q, i + 9) - 128)
            IN <<55296 + ((cp - 65536) \div 1024),
                 56320 + ((cp - 65536) % 1024)>>

Decoded(q) == Joined([i \in 1..Len(q) |-> DecodedAt(q, i)], 1, Len(q))

\* the first min(length, 200) code units of the text to pronounce
Prefix200 ==
  [i \in 1..(IF Len(args.text) < 200 THEN Len(args.text) ELSE 200) |->
     args.text[i]]

\* C30: for every text, the text the primary path hands to the provider (in
\* the url of the audio element) and the text the fallback path hands to the
\* browser's synthesizer (in the utterance) are the text's first
\* min(length, 200) characters: the whole text up to 200, the first 200 of a
\* longer one.
C30_SpokenTextIsPrefix200 ==
  \A p \in Plays :
    /\ plays[p].audio = "active" =>
         /\ Decoded(plays[p].q) = Prefix200
         /\ Len(args.text) <= 200 => Decoded(plays[p].q) = args.text
    /\ plays[p].utter = "speaking" =>
         /\ plays[p].utext = Prefix200
         /\ Len(args.text) <= 200 => plays[p].utext = args.text

C30_Witness ==
  /\ Len(args.text) = 202
  /\ args.text[200] = 248
  /\ Len(plays) = 2
  /\ plays[1].utter = "speaking" /\ Len(plays[1].utext) = 200
  /\ plays[2].audio = "active" /\ Len(plays[2].q) = 199 + 6

\* A clear-selection came after request r was submitted and no submit came
\* after it: r, submitted by a click on a word (which sets the popover's
\* anchor), is still the current generation and the anchor is null, which
\* only the click on no text and the close button make it.
ClearedSince(r) ==
  /\ req[r].requestId = currentRequestId
  /\ ~req[r].isSentence
  /\ popoverPos = 0

\* C31: after a clear-selection the shown Definition stays none until the
\* next submit, also when the translation call of a lookup submitted before
\* the clear completes afterwards.
C31_ClearedStaysCleared ==
  [][\A r \in Requests :
       (CompletionStep(r) /\ ClearedSince(r)) => currentDefinition' = None]_vars

\* C32: after a clear-selection the auto-play loop of the Definition that was
\* shown starts no play until the next submit.
C32_NoPlayAfterClear ==
  [][\A r \in Requests :
       (LoopPlayStep(r) /\ req[r].pc = "done") => ~ClearedSince(r)]_vars

\* C33: a play that stopAudio cancelled makes no further sound: an error
\* event or a rejected start of its stopped audio element does not start the
\* fallback synthesizer for its text.
C33_StoppedPlayStaysSilent ==
  [][\A p \in Plays : FallbackStarts(p) => plays[p].audio # "stopped"]_vars

\* the play the Listen button started has not ended
ManualPlaying ==
  isPlayingAudio /\ manualPlay # 0 /\ plays[manualPlay].promise = "pending"

\* C34: a manual play started while the auto-play loop of the current request
\* has repetitions left is not cut off by the loop: the loop starts no
\* repetition until the manual play has ended.
C34_LoopWaitsForManualPlay ==
  [][\A r \in Requests : LoopPlayStep(r) => ~ManualPlaying]_vars

\* the request that holds the current generation is in flight
CurrentInFlight ==
  \E r \in Requests :
    req[r].requestId = currentRequestId /\ req[r].pc = "translating"

\* C35: the translation loading indicator is on exactly while the request
\* that holds the current generation is in flight; no other operation clears
\* or overwrites it while that lookup is pending.
C35_LoadingWhileCurrentInFlight ==
  (loadingState = "TRANSLATING") <=> CurrentInFlight

\* the reader switches from one article to another
ArticleSwitch == article # 0 /\ article' # 0 /\ article' # article

\* request r has a lookup or an auto-play loop in flight
InFlight(r) ==
  req[r].pc = "translating" \/ req[r].lpc \in {"awaitPlay", "pause"}

\* C36: switching to another article invalidates every lookup and auto-play
\* loop still in flight from the previous article, so that a Definition shown
\* afterwards was requested from the article now displayed.
C36_SwitchInvalidatesInFlight ==
  [][ArticleSwitch =>
       \A r \in Requests : InFlight(r) => req'[r].requestId # currentRequestId']_vars

\* the synthesized click of a tap is delivered
TapClick == clickPending /\ ~clickPending'

\* a run of handleManualTranslate: a lookup or the alert of an empty selection
ManualTranslateRuns == submitCalls' + alerts' = submitCalls + alerts + 1

\* C37: the synthesized click that follows a touch-end on the Translate
\* Selection button within 400 ms issues no lookup of its own and leaves the
\* generation counter alone, so that one tap issues exactly one lookup; a click
\* that arrives after the 400 ms issues a lookup of its own.
C37_OneLookupPerTap ==
  [][TapClick =>
       /\ now - lastTouchEnd < ManualTranslateDelay =>
             /\ req' = req
             /\ currentRequestId' = currentRequestId
             /\ submitCalls' + alerts' = submitCalls + alerts
       /\ now - lastTouchEnd > ManualTranslateDelay => ManualTranslateRuns]_vars

\* the selection of the function specification inside the flattened block
Selected == args.op = "select" /\ ret.done
SelFrom == PositionOf(args.nodes, args.from)
SelTo == PositionOf(args.nodes, args.to)
SelText == textContent(args.nodes)

\* the selection ends with a terminator and holds no other: it lies within one
\* sentence and ends with that sentence's terminator
EndsItsSentence ==
  /\ SelText[SelTo] \in terminators
  /\ \A i \in (SelFrom + 1)..(SelTo - 1) : SelText[i] \notin terminators

\* that sentence: from just after the terminator before the selection (or the
\* block start) to the selection's end
OwnSentence ==
  LET before == {i \in Terminated(SelText) : i <= SelFrom}
      start == IF before = {} THEN 0
               ELSE CHOOSE i \in before : \A j \in before : j <= i
  IN substring(SelText, start, SelTo)

\* C38: for a selection that lies within a single sentence and ends with that
\* sentence's terminator, the context extracted for the lookup is that
\* sentence alone and does not extend into the following sentence.
C38_ContextIsOwnSentence ==
  (Selected /\ ret.kind = "select" /\ args.from.node # 0 /\ args.to.node # 0
     /\ EndsItsSentence)
    => ret.context = trim(OwnSentence)

\* the offset was reset since the pointer-down of the gesture in progress: it
\* is {0,0} and not what the gesture's last move set
ResetDuringGesture ==
  /\ held
  /\ isDraggingRef
  /\ dragOffset = Zero
  /\ Dragged(initialDragOffsetRef, dragStartRef, pointer) # Zero

\* C39: a drag-offset reset caused by a new lookup is not undone by a drag
\* gesture that was in progress when the reset happened: the moves of that
\* gesture leave the offset {0,0}.
C39_ResetSurvivesGesture ==
  [][(ResetDuringGesture /\ DragMove) => dragOffset' = Zero]_vars

====
